---- MODULE Spec2Model ----
(***************************************************************************)
(* A model of the export pipeline of jira-feature-extract:                 *)
(*   ExportService.export / exportXml / exportJson / exportCsv,            *)
(*   the per-issue projections processIssueForJson, processIssueForCsv     *)
(*   and XmlExporter.convertIssueToXml, XmlExporter.exportToXml, and the   *)
(*   export store useExportStore that calls export.                        *)
(*                                                                         *)
(* JavaScript values are encoded so that any two of them can be compared:  *)
(* undefined, null, strings and numbers are tagged records, objects are    *)
(* records and arrays are sequences.  Timestamps (startTime, the ETA, the  *)
(* export and build dates, the date in the file name) depend on the clock  *)
(* only and are left out of the events and of the documents.               *)
(***************************************************************************)
EXTENDS Integers, Sequences, FiniteSets, TLC

VARIABLES
    issues,          \* the issues[] argument of export
    config,          \* the ExportConfig argument of export
    onProgress,      \* TRUE iff the optional onProgress callback was passed
    pc,              \* position of the run inside export and its callees
    processedCount,  \* the local processedCount of the running encoder
    acc,             \* the encoder's accumulator (item[] / issues[] / csvData)
    content,         \* the serialized document, once built
    events,          \* every ProgressInfo handed to onProgress, in order
    saveAsCalls,     \* number of calls of file-saver's saveAs so far
    delivered,       \* the blobs saveAs accepted, in order
    thrown,          \* the error caught by export's catch clause
    outcome,         \* export's promise: its status and, once rejected, the reason
    projected,       \* the three projections of one issue (SpecProject)
    frames,          \* the other calls of export: suspended, not started or finished
    store,           \* the export store (and the results of the query store)
    connection,      \* the connection store (useConnectionStore)
    query,           \* the query store (useQueryStore)
    searchAll,       \* the locals of a JiraClient.searchAll generator, and what it yielded
    sessionStorage,  \* the browser's sessionStorage, by key
    localStorage,    \* the browser's localStorage, by key
    pending,         \* the HTTP requests in flight, with the call that awaits each
    server,          \* the JIRA server: its result sets, page cap and accepted tokens
    now              \* the browser's clock, which new Date() reads

\* the export pipeline and its store
pipeline == <<issues, config, onProgress, pc, processedCount, acc, content,
              events, saveAsCalls, delivered, thrown, outcome, projected, frames, store>>

\* everything but the export pipeline and its store
browser ==
    <<connection, query, searchAll, sessionStorage, localStorage, pending, server, now>>

vars == <<pipeline, browser>>

-----------------------------------------------------------------------------
(* Bounds of the model.                                                    *)

\* longest issue list of the runs of Spec
MaxIssues == 21
\* longest issue list of the runs of SpecDoc
MaxDocIssues == 2

-----------------------------------------------------------------------------
(* JavaScript values.                                                      *)

Undefined == [t |-> "undefined"]
Null == [t |-> "null"]
Str(s) == [t |-> "string", v |-> s]
Num(n) == [t |-> "number", v |-> n]
Bool(b) == [t |-> "boolean", v |-> b]

\* x is undefined or null: what ?. short-circuits on
Nullish(x) == x = Undefined \/ x = Null

\* ToBoolean(x) is false
Falsy(x) == Nullish(x) \/ x = Str("") \/ x = Num(0) \/ x = Bool(FALSE)

\* (mutant) the right operand is preferred
Or_PrefersSecond(a, b) == IF Falsy(b) THEN a ELSE b
\* a || b
Or(a, b) == IF Falsy(a) THEN b ELSE a

\* obj[key] of a plain object: undefined when the key is missing
Get(obj, key) == IF key \in DOMAIN obj THEN obj[key] ELSE Undefined

\* the object literal {} and an object with the single property key
EmptyObject == [k \in {} |-> Undefined]
Prop(key, value) == [k \in {key} |-> value]

\* An array is tagged, so that it can be compared with undefined and null.
Arr(items) == [t |-> "array", items |-> items]
Length(array) == Len(array.items)

\* the members of an array, and array.map(f) for f given by its value on
\* each member
Elements(array) == { array.items[k] : k \in 1..Length(array) }
Map(array, f) == Arr([k \in 1..Length(array) |-> f[array.items[k]]])

\* error instanceof Error, with its message
Error(message) == [isError |-> TRUE, message |-> message]

-----------------------------------------------------------------------------
(* The issues handed to export: JiraIssue objects as the code reads them.  *)

User(name) == [displayName |-> Str(name), emailAddress |-> Str(name \o "@example.org"),
               name |-> Str(name), key |-> Str(name)]

\* fields.comment, fields.attachment, fields.worklog, fields.subtasks,
\* fields.issuelinks and fields.parent of an issue that has them
CommentField ==
    [total |-> Num(1),
     comments |-> Arr(<< [id |-> Str("c1"), author |-> User("ann"),
                          body |-> Str("a comment"), created |-> Str("2024-01-02"),
                          updated |-> Str("2024-01-03")] >>)]
AttachmentField ==
    Arr(<< [id |-> Str("a1"), filename |-> Str("log.txt"), size |-> Num(10),
        mimeType |-> Str("text/plain"), author |-> User("bob"),
        created |-> Str("2024-01-02"), content |-> Str("http://jira/a1")] >>)
Worklog(id, seconds) ==
    [id |-> Str(id), author |-> User("ann"), timeSpent |-> Str("some time"),
     timeSpentSeconds |-> Num(seconds), created |-> Str("2024-01-02"),
     started |-> Str("2024-01-02"), comment |-> Str("work")]
WorklogField ==
    [total |-> Num(2), worklogs |-> Arr(<< Worklog("w1", 3600), Worklog("w2", 1800) >>)]
SubtasksField ==
    Arr(<< [id |-> Str("s1"), key |-> Str("PROJ-S1"),
        fields |-> [summary |-> Str("A subtask"), status |-> [name |-> Str("Open")],
                    issuetype |-> [name |-> Str("Sub-task")]]] >>)
LinkedIssue(key) == [key |-> Str(key), fields |-> [summary |-> Str("Linked " \o key)]]
IssueLinksField ==
    Arr(<< [id |-> Str("l1"),
        type |-> [name |-> Str("Blocks"), inward |-> Str("is blocked by"),
                  outward |-> Str("blocks")],
        outwardIssue |-> LinkedIssue("PROJ-9"), inwardIssue |-> Undefined] >>)
ParentField == [id |-> Str("10"), key |-> Str("PROJ-1"), fields |-> [summary |-> Str("Parent")]]

\* the names of the optional sub-collections of an issue
Sections == {"comment", "attachment", "worklog", "subtasks", "issuelinks"}

\* the custom field key the issues carry, and a key that is no custom field
CustomKey == "customfield_10001"
PlainKey == "summary"

\* The i-th issue of a list.  wellFormed: the issue has its `fields`;
\* relations: priority, assignee, reporter, resolution and the optional
\* scalars are set; sections: the sub-collections present; hasParent;
\* custom: the value of fields[CustomKey] (Undefined: the key is missing).
MkIssue(i, wellFormed, relations, sections, hasParent, custom) ==
    [id |-> Str(ToString(i)),
     key |-> Str("PROJ-" \o ToString(i)),
     self |-> Str("http://jira/rest/api/2/issue/" \o ToString(i)),
     fields |->
        IF ~wellFormed THEN Undefined ELSE
        [summary |-> Str("Summary " \o ToString(i)),
         description |-> IF relations THEN Str("Some text") ELSE Null,
         environment |-> IF relations THEN Str("prod") ELSE Null,
         issuetype |-> [id |-> Str("1"), name |-> Str("Bug"), subtask |-> FALSE,
                        iconUrl |-> Str("http://jira/bug.png")],
         project |-> [id |-> Str("100"), key |-> Str("PROJ"), name |-> Str("Project")],
         status |-> [id |-> Str("3"), name |-> Str("Open"), description |-> Str("open"),
                     statusCategory |-> [name |-> Str("To Do")]],
         priority |-> IF relations
                      THEN [id |-> Str("2"), name |-> Str("High"),
                            iconUrl |-> Str("http://jira/high.png")]
                      ELSE Null,
         resolution |-> IF relations THEN [id |-> Str("5"), name |-> Str("Fixed")] ELSE Null,
         assignee |-> IF relations THEN User("ann") ELSE Null,
         reporter |-> IF relations THEN User("bob") ELSE Null,
         created |-> Str("2024-01-01"),
         updated |-> Str("2024-01-02"),
         resolutiondate |-> IF relations THEN Str("2024-01-03") ELSE Null,
         duedate |-> IF relations THEN Str("2024-01-04") ELSE Null,
         labels |-> IF relations THEN Arr(<< Str("ui"), Str("api") >>) ELSE Arr(<< >>),
         components |-> IF relations
                        THEN Arr(<< [id |-> Str("7"), name |-> Str("Core"),
                                 description |-> Str("core")] >>)
                        ELSE Arr(<< >>),
         fixVersions |-> IF relations
                         THEN Arr(<< [id |-> Str("8"), name |-> Str("1.1"),
                                  releaseDate |-> Str("2024-02-01")] >>)
                         ELSE Arr(<< >>),
         versions |-> IF relations
                      THEN Arr(<< [id |-> Str("9"), name |-> Str("1.0"),
                               releaseDate |-> Str("2023-12-01")] >>)
                      ELSE Arr(<< >>),
         comment |-> IF "comment" \in sections THEN CommentField ELSE Undefined,
         attachment |-> IF "attachment" \in sections THEN AttachmentField ELSE Undefined,
         worklog |-> IF "worklog" \in sections THEN WorklogField ELSE Undefined,
         subtasks |-> IF "subtasks" \in sections THEN SubtasksField ELSE Undefined,
         issuelinks |-> IF "issuelinks" \in sections THEN IssueLinksField ELSE Undefined,
         parent |-> IF hasParent THEN ParentField ELSE Undefined]
        @@ (IF custom = Undefined THEN EmptyObject ELSE Prop(CustomKey, custom))]

\* Reading a property of issue.fields when fields is undefined throws a
\* TypeError in every projection (each reads issue.fields.summary first).
ProjectionThrows(issue) == issue.fields = Undefined
ProjectionError == Error("Cannot read properties of undefined (reading 'summary')")

-----------------------------------------------------------------------------
(* Custom field values, whose shape is only known at run time: objects    *)
(* are tagged too, so that typeof and Array.isArray can be asked.          *)

Obj(props) == [t |-> "object", props |-> props]

\* the property names custom field objects may carry, in insertion order
PropOrder == << "id", "value", "name", "displayName" >>

\* JSON.stringify of a custom field value
RECURSIVE JSONStringify(_)
RECURSIVE JSONMembers(_, _)
JSONMembers(props, from) ==
    IF from > Len(PropOrder) THEN ""
    ELSE LET key == PropOrder[from]
             rest == JSONMembers(props, from + 1)
         IN IF key \notin DOMAIN props \/ props[key] = Undefined THEN rest
            ELSE "\"" \o key \o "\":" \o JSONStringify(props[key])
                 \o (IF rest = "" THEN "" ELSE "," \o rest)
RECURSIVE JSONElements(_, _)
JSONElements(items, from) ==
    IF from > Len(items) THEN ""
    ELSE (IF items[from] = Undefined THEN "null" ELSE JSONStringify(items[from]))
         \o (IF from < Len(items) THEN "," \o JSONElements(items, from + 1) ELSE "")
JSONStringify(value) ==
    CASE value.t = "string" -> "\"" \o value.v \o "\""
      [] value.t = "number" -> ToString(value.v)
      [] value.t = "boolean" -> IF value.v THEN "true" ELSE "false"
      [] value.t = "null" -> "null"
      [] value.t = "object" -> "{" \o JSONMembers(value.props, 1) \o "}"
      [] value.t = "array" -> "[" \o JSONElements(value.items, 1) \o "]"

\* typeof item === 'object' && item !== null
IsObjectLike(value) == value.t \in {"object", "array"}

\* item.value, item.name, item.displayName of an object or of an array
\* (an array has none of them)
Member(value, key) == IF value.t = "object" THEN Get(value.props, key) ELSE Undefined

normalizeCustomField(value) ==
    IF value.t = "array"
    THEN Map(value,
             [item \in Elements(value) |-> IF IsObjectLike(item)
                    THEN Or(Member(item, "value"),
                            Or(Member(item, "name"),
                               Or(Member(item, "displayName"), Str(JSONStringify(item)))))
                    ELSE item])
    ELSE IF value.t = "object"
    THEN IF Member(value, "value") # Undefined THEN Member(value, "value")
         ELSE IF Member(value, "name") # Undefined THEN Member(value, "name")
         ELSE IF Member(value, "displayName") # Undefined THEN Member(value, "displayName")
         ELSE Str(JSONStringify(value))
    ELSE value

-----------------------------------------------------------------------------
(* The per-issue projections.                                              *)

\* (mutant) the inclusion flag is not consulted
Requested_IgnoresFlag(flag, section) == ~Falsy(section)
\* `config.includeX && issue.fields.x`: the condition under which a
\* projection adds an optional section
Requested(flag, section) == flag /\ ~Falsy(section)

\* object?.property
Optional(object, property) == IF Nullish(object) THEN Undefined ELSE object[property]

processIssueForJson(issue, cfg) ==
    LET f == issue.fields
        processedIssue ==
            [id |-> issue.id,
             key |-> issue.key,
             self |-> issue.self,
             summary |-> f.summary,
             description |-> f.description,
             issueType |-> [id |-> f.issuetype.id, name |-> f.issuetype.name,
                            subtask |-> f.issuetype.subtask],
             project |-> [id |-> f.project.id, key |-> f.project.key,
                          name |-> f.project.name],
             status |-> [id |-> f.status.id, name |-> f.status.name,
                         category |-> f.status.statusCategory.name],
             priority |-> IF ~Falsy(f.priority)
                          THEN [id |-> f.priority.id, name |-> f.priority.name]
                          ELSE Null,
             assignee |-> IF ~Falsy(f.assignee)
                          THEN [displayName |-> f.assignee.displayName,
                                emailAddress |-> f.assignee.emailAddress]
                          ELSE Null,
             reporter |-> IF ~Falsy(f.reporter)
                          THEN [displayName |-> f.reporter.displayName,
                                emailAddress |-> f.reporter.emailAddress]
                          ELSE Null,
             created |-> f.created,
             updated |-> f.updated,
             resolutionDate |-> f.resolutiondate,
             dueDate |-> f.duedate,
             labels |-> Or(f.labels, Arr(<< >>)),
             components |->
                IF Nullish(f.components) THEN Arr(<< >>)
                ELSE Map(f.components,
                         [c \in Elements(f.components) |-> [id |-> c.id, name |-> c.name,
                                    description |-> c.description]]),
             fixVersions |->
                IF Nullish(f.fixVersions) THEN Arr(<< >>)
                ELSE Map(f.fixVersions,
                         [v \in Elements(f.fixVersions) |-> [id |-> v.id, name |-> v.name,
                                    releaseDate |-> v.releaseDate]]),
             versions |->
                IF Nullish(f.versions) THEN Arr(<< >>)
                ELSE Map(f.versions,
                         [v \in Elements(f.versions) |-> [id |-> v.id, name |-> v.name,
                                    releaseDate |-> v.releaseDate]])]
        comments ==
            IF Requested(cfg.includeComments, Optional(f.comment, "comments"))
            THEN Prop("comments",
                      Map(f.comment.comments,
                          [comment \in Elements(f.comment.comments) |-> [id |-> comment.id, author |-> comment.author.displayName,
                             body |-> comment.body, created |-> comment.created,
                             updated |-> comment.updated]]))
            ELSE EmptyObject
        attachments ==
            IF Requested(cfg.includeAttachments, f.attachment)
            THEN Prop("attachments",
                      Map(f.attachment,
                          [attachment \in Elements(f.attachment) |-> [id |-> attachment.id, filename |-> attachment.filename,
                             size |-> attachment.size, mimeType |-> attachment.mimeType,
                             author |-> attachment.author.displayName,
                             created |-> attachment.created]]))
            ELSE EmptyObject
        worklogs ==
            IF Requested(cfg.includeWorklog, Optional(f.worklog, "worklogs"))
            THEN Prop("worklogs",
                      Map(f.worklog.worklogs,
                          [worklog \in Elements(f.worklog.worklogs) |-> [id |-> worklog.id, author |-> worklog.author.displayName,
                             timeSpent |-> worklog.timeSpent,
                             timeSpentSeconds |-> worklog.timeSpentSeconds,
                             started |-> worklog.started, comment |-> worklog.comment]]))
            ELSE EmptyObject
        subtasks ==
            IF Requested(cfg.includeSubtasks, f.subtasks)
            THEN Prop("subtasks",
                      Map(f.subtasks,
                          [subtask \in Elements(f.subtasks) |-> [id |-> subtask.id, key |-> subtask.key,
                             summary |-> subtask.fields.summary,
                             status |-> subtask.fields.status.name,
                             issueType |-> subtask.fields.issuetype.name]]))
            ELSE EmptyObject
        issueLinks ==
            IF Requested(cfg.includeLinks, f.issuelinks)
            THEN Prop("issueLinks",
                      Map(f.issuelinks,
                          [link \in Elements(f.issuelinks) |-> [id |-> link.id,
                             type |-> [name |-> link.type.name, inward |-> link.type.inward,
                                       outward |-> link.type.outward],
                             linkedIssue |->
                                IF ~Falsy(Or(link.outwardIssue, link.inwardIssue))
                                THEN [key |-> Or(link.outwardIssue, link.inwardIssue).key,
                                      summary |-> Or(link.outwardIssue,
                                                     link.inwardIssue).fields.summary]
                                ELSE Null,
                             direction |-> IF ~Falsy(link.outwardIssue)
                                           THEN Str("outward") ELSE Str("inward")]]))
            ELSE EmptyObject
        parent ==
            IF ~Falsy(f.parent)
            THEN Prop("parent", [id |-> f.parent.id, key |-> f.parent.key,
                                 summary |-> f.parent.fields.summary])
            ELSE EmptyObject
    IN processedIssue @@ comments @@ attachments @@ worklogs @@ subtasks
       @@ issueLinks @@ parent

\* array.join(', ') of an array of strings
RECURSIVE JoinFrom(_, _)
JoinFrom(array, from) ==
    IF from > Length(array) THEN ""
    ELSE array.items[from].v
         \o (IF from < Length(array) THEN ", " \o JoinFrom(array, from + 1) ELSE "")
Join(array) == Str(JoinFrom(array, 1))

\* worklogs.reduce((total, worklog) => total + worklog.timeSpentSeconds, 0)
RECURSIVE SumSeconds(_, _)
SumSeconds(worklogs, from) ==
    IF from > Length(worklogs) THEN 0
    ELSE worklogs.items[from].timeSpentSeconds.v + SumSeconds(worklogs, from + 1)

\* Math.round(num / den) for num >= 0, den > 0: halves round up
MathRound(num, den) == (2 * num + den) \div (2 * den)

\* the number n / 100
Hundredths(n) == [t |-> "number", v |-> n, per |-> 100]

\* largest totalTimeSpent of the issues of the model, in seconds
MaxSeconds == 8000

\* totalTimeSpent / 3600 * 100 is computed in IEEE-754 doubles.  The exact
\* quotient x / 36 is either a tie k + 1/2 or at least 1/72 away from one,
\* so the double and the exact value round alike except at a tie whose
\* double falls short of it: 2070 / 3600 * 100 is 57.49999999999999.
\* These are the x <= MaxSeconds for which it does.
ShortOfTie ==
    { 522, 1026, 2034, 2070, 3618, 3654, 3690, 3726, 4518, 4554, 4590,
      7686, 7758, 7830, 7902 }

\* Math.round(totalTimeSpent / 3600 * 100) / 100
RoundHours(totalTimeSpent) ==
    Hundredths(IF totalTimeSpent \in ShortOfTie
               THEN MathRound(totalTimeSpent * 100, 3600) - 1
               ELSE MathRound(totalTimeSpent * 100, 3600))

\* A CSV row is an object whose key order matters (Papa.unparse reads the
\* columns off the first row): a sequence of <<key, value>> pairs.
processIssueForCsv(issue, cfg) ==
    LET f == issue.fields
        NameOf(x) == IF Nullish(x) THEN Undefined ELSE x.name
        Names(array) == IF Nullish(array) THEN Undefined
                        ELSE Join(Map(array, [c \in Elements(array) |-> c.name]))
        csvRow ==
            << <<"Issue ID", issue.id>>,
               <<"Issue Key", issue.key>>,
               <<"Summary", f.summary>>,
               <<"Description", Or(f.description, Str(""))>>,
               <<"Issue Type", f.issuetype.name>>,
               <<"Project Key", f.project.key>>,
               <<"Project Name", f.project.name>>,
               <<"Status", f.status.name>>,
               <<"Priority", Or(NameOf(f.priority), Str(""))>>,
               <<"Assignee", Or(IF Nullish(f.assignee) THEN Undefined
                                ELSE f.assignee.displayName, Str(""))>>,
               <<"Reporter", Or(IF Nullish(f.reporter) THEN Undefined
                                ELSE f.reporter.displayName, Str(""))>>,
               <<"Created", f.created>>,
               <<"Updated", f.updated>>,
               <<"Resolution Date", Or(f.resolutiondate, Str(""))>>,
               <<"Due Date", Or(f.duedate, Str(""))>>,
               <<"Labels", Or(IF Nullish(f.labels) THEN Undefined ELSE Join(f.labels),
                              Str(""))>>,
               <<"Components", Or(Names(f.components), Str(""))>>,
               <<"Fix Versions", Or(Names(f.fixVersions), Str(""))>>,
               <<"Versions", Or(Names(f.versions), Str(""))>> >>
        parent ==
            IF ~Falsy(f.parent)
            THEN << <<"Parent Key", f.parent.key>>,
                    <<"Parent Summary", f.parent.fields.summary>> >>
            ELSE << >>
        subtasks ==
            IF Requested(cfg.includeSubtasks, f.subtasks)
            THEN << <<"Subtasks Count", Num(Length(f.subtasks))>>,
                    <<"Subtasks", Join(Map(f.subtasks, [st \in Elements(f.subtasks) |-> st.key]))>> >>
            ELSE << >>
        comments ==
            IF Requested(cfg.includeComments, f.comment)
            THEN << <<"Comments Count", f.comment.total>> >>
            ELSE << >>
        attachments ==
            IF Requested(cfg.includeAttachments, f.attachment)
            THEN << <<"Attachments Count", Num(Length(f.attachment))>> >>
            ELSE << >>
        totalTimeSpent ==
            Or(IF Nullish(f.worklog.worklogs) THEN Undefined
               ELSE Num(SumSeconds(f.worklog.worklogs, 1)), Num(0))
        worklog ==
            IF Requested(cfg.includeWorklog, f.worklog)
            THEN << <<"Worklog Count", f.worklog.total>>,
                    <<"Total Time Spent (seconds)", totalTimeSpent>>,
                    <<"Total Time Spent (hours)",
                      RoundHours(totalTimeSpent.v)>> >>
            ELSE << >>
    IN csvRow \o parent \o subtasks \o comments \o attachments \o worklog

\* fieldKey.startsWith('customfield_'), for the keys of the model
StartsWithCustomfield(fieldKey) == fieldKey = CustomKey

convertIssueToXml(issue, cfg) ==
    LET f == issue.fields
        Version(v) == [id |-> v.id, text |-> v.name]
        xmlIssue ==
            [id |-> issue.id,
             title |-> f.summary,
             link |-> issue.self,
             projectKey |-> f.project.key,
             description |-> Or(f.description, Str("")),
             environment |-> Or(f.environment, Str("")),
             key |-> issue.key,
             summary |-> f.summary,
             type |-> [id |-> f.issuetype.id, iconUrl |-> f.issuetype.iconUrl,
                       text |-> f.issuetype.name],
             priority |-> IF ~Falsy(f.priority)
                          THEN [id |-> f.priority.id, iconUrl |-> f.priority.iconUrl,
                                text |-> f.priority.name]
                          ELSE Undefined,
             status |-> [id |-> f.status.id, description |-> f.status.description,
                         text |-> f.status.name],
             resolution |-> IF ~Falsy(f.resolution)
                            THEN [id |-> f.resolution.id, text |-> f.resolution.name]
                            ELSE Undefined,
             assignee |-> IF ~Falsy(f.assignee)
                          THEN [username |-> Or(f.assignee.name, f.assignee.key),
                                text |-> f.assignee.displayName]
                          ELSE Undefined,
             reporter |-> IF ~Falsy(f.reporter)
                          THEN [username |-> Or(f.reporter.name, f.reporter.key),
                                text |-> f.reporter.displayName]
                          ELSE Undefined,
             created |-> f.created,
             updated |-> f.updated,
             resolved |-> f.resolutiondate,
             version |-> IF Nullish(f.versions) THEN Arr(<< >>) ELSE Map(f.versions, [v \in Elements(f.versions) |-> Version(v)]),
             fixVersion |-> IF Nullish(f.fixVersions) THEN Arr(<< >>)
                            ELSE Map(f.fixVersions, [v \in Elements(f.fixVersions) |-> Version(v)]),
             component |-> IF Nullish(f.components) THEN Arr(<< >>)
                           ELSE Map(f.components, [v \in Elements(f.components) |-> Version(v)]),
             labels |-> [label |-> Or(f.labels, Arr(<< >>))],
             dueDate |-> f.duedate]
        comments ==
            IF Requested(cfg.includeComments, Optional(f.comment, "comments"))
            THEN Prop("comments",
                      [total |-> f.comment.total,
                       comment |->
                          Map(f.comment.comments,
                              [comment \in Elements(f.comment.comments) |-> [id |-> comment.id, author |-> comment.author.displayName,
                                 created |-> comment.created, updated |-> comment.updated,
                                 text |-> comment.body]])])
            ELSE EmptyObject
        attachments ==
            IF Requested(cfg.includeAttachments, f.attachment)
            THEN Prop("attachments",
                      [total |-> Num(Length(f.attachment)),
                       attachment |->
                          Map(f.attachment,
                              [attachment \in Elements(f.attachment) |-> [id |-> attachment.id, name |-> attachment.filename,
                                 size |-> attachment.size,
                                 author |-> attachment.author.displayName,
                                 created |-> attachment.created,
                                 text |-> attachment.content]])])
            ELSE EmptyObject
        worklogs ==
            IF Requested(cfg.includeWorklog, Optional(f.worklog, "worklogs"))
            THEN Prop("worklogs",
                      [total |-> f.worklog.total,
                       worklog |->
                          Map(f.worklog.worklogs,
                              [worklog \in Elements(f.worklog.worklogs) |-> [id |-> worklog.id, author |-> worklog.author.displayName,
                                 created |-> worklog.created, started |-> worklog.started,
                                 timeSpent |-> worklog.timeSpent,
                                 timeSpentSeconds |-> worklog.timeSpentSeconds,
                                 text |-> Or(worklog.comment, Str(""))]])])
            ELSE EmptyObject
        subtasks ==
            IF Requested(cfg.includeSubtasks, f.subtasks)
            THEN Prop("subtasks",
                      [total |-> Num(Length(f.subtasks)),
                       subtask |->
                          Map(f.subtasks,
                              [subtask \in Elements(f.subtasks) |-> [id |-> subtask.id, key |-> subtask.key,
                                 type |-> subtask.fields.issuetype.name,
                                 status |-> subtask.fields.status.name,
                                 text |-> subtask.fields.summary]])])
            ELSE EmptyObject
        parent ==
            IF ~Falsy(f.parent)
            THEN Prop("parent", [id |-> f.parent.id, key |-> f.parent.key,
                                 text |-> f.parent.fields.summary])
            ELSE EmptyObject
        issuelinks ==
            IF Requested(cfg.includeLinks, f.issuelinks)
            THEN Prop("issuelinks",
                      [total |-> Num(Length(f.issuelinks)),
                       issuelink |->
                          Map(f.issuelinks,
                              [link \in Elements(f.issuelinks) |-> LET linked == Or(link.outwardIssue, link.inwardIssue)
                                IN [id |-> link.id,
                                    type |-> link.type.name,
                                    direction |-> IF ~Falsy(link.outwardIssue)
                                                  THEN Str("outward") ELSE Str("inward"),
                                    linktype |-> IF ~Falsy(link.outwardIssue)
                                                 THEN link.type.outward
                                                 ELSE link.type.inward,
                                    issuekey |-> IF Nullish(linked) THEN Undefined
                                                 ELSE linked.key,
                                    summary |-> IF Nullish(linked) THEN Undefined
                                                ELSE linked.fields.summary]])])
            ELSE EmptyObject
        customKeys ==
            { cfg.includeFields[k] : k \in
                { j \in 1..Len(cfg.includeFields) :
                    /\ StartsWithCustomfield(cfg.includeFields[j])
                    /\ Get(f, cfg.includeFields[j]) # Undefined
                    /\ Get(f, cfg.includeFields[j]) # Null } }
        customFields == [fieldKey \in customKeys |-> normalizeCustomField(f[fieldKey])]
        customfields ==
            IF Len(cfg.includeFields) > 0 /\ Cardinality(customKeys) > 0
            THEN Prop("customfields", customFields)
            ELSE EmptyObject
    IN xmlIssue @@ comments @@ attachments @@ worklogs @@ subtasks @@ parent
       @@ issuelinks @@ customfields

-----------------------------------------------------------------------------
(* Serialization and delivery.  A document is kept as the structure its    *)
(* text spells out.                                                        *)

\* JSON.stringify and XMLBuilder.build both leave out a property whose
\* value is undefined
DropUndefined(obj) == [k \in { key \in DOMAIN obj : obj[key] # Undefined } |-> obj[k]]

\* JSON.stringify(exportData, null, 2)
JsonDocument(exportDataIssues, total) ==
    [metadata |-> [totalIssues |-> Num(total), format |-> Str("json"),
                   version |-> Str("1.0.0")],
     issues |-> Arr([k \in 1..Len(exportDataIssues) |-> DropUndefined(exportDataIssues[k])])]

\* xmlBuilder.build(xmlData): an element per defined property, one element
\* per member of an array (none for an empty array)
XmlDocument(items, total) ==
    [declaration |-> [version |-> Str("1.0"), encoding |-> Str("UTF-8")],
     channel |-> [title |-> Str("JIRA Feature Extract"),
                  description |-> Str("Exported " \o ToString(total) \o " issues")],
     item |-> [i \in 1..Len(items) |->
                 LET defined == DropUndefined(items[i])
                 IN [k \in { key \in DOMAIN defined : defined[key] # Arr(<< >>) }
                       |-> defined[k]]]]

\* Object.keys(row) and row[key] of a CSV row
Keys(row) == [k \in 1..Len(row) |-> row[k][1]]
Lookup(row, key) ==
    IF \E k \in 1..Len(row) : row[k][1] = key
    THEN row[CHOOSE k \in 1..Len(row) : row[k][1] = key][2]
    ELSE Undefined

\* Papa.unparse(csvData, {header: true, delimiter: ',', quotes: true}):
\* no text at all for an empty array; otherwise the columns are the keys of
\* the FIRST row, every row is read through them, a missing, null or
\* undefined cell is empty and every other cell is quoted.
PapaUnparse(csvData) ==
    IF Len(csvData) = 0 THEN << >>
    ELSE LET fields == Keys(csvData[1])
             Safe(value) == IF Nullish(value) THEN [quoted |-> FALSE, value |-> Str("")]
                            ELSE [quoted |-> TRUE, value |-> value]
         IN << [c \in 1..Len(fields) |-> Safe(Str(fields[c]))] >>
            \o [r \in 1..Len(csvData) |->
                  [c \in 1..Len(fields) |-> Safe(Lookup(csvData[r], fields[c]))]]

\* new Blob([text], {type}) with the file name's extension
Blob(text, type, extension) == [content |-> text, type |-> type, extension |-> extension]

-----------------------------------------------------------------------------
(* Progress events.                                                        *)

ProgressInfo(current, total, percentage, stage, message) ==
    [current |-> current, total |-> total, percentage |-> percentage,
     stage |-> stage, message |-> message]

\* export was not called by the export store
NoStore == [t |-> "none"]

\* the callback exportData passes to export: the event becomes progressInfo
\* and `state` is replaced by an object made from the event
StoreOnProgress(st, progress) ==
    [st EXCEPT !.progressInfo = progress,
               !.state = [isExporting |-> TRUE,
                          progress |-> Num(progress.percentage),
                          totalItems |-> Num(progress.total),
                          processedItems |-> Num(progress.current)]]

\* (mutant) the callback may miss an event
Emit_Unreliable(info) ==
    /\ \/ events' = IF onProgress THEN Append(events, info) ELSE events
       \/ events' = events
    /\ store' = store
\* onProgress(info), guarded by `if (onProgress)`
Emit(info) ==
    /\ events' = IF onProgress THEN Append(events, info) ELSE events
    /\ store' = IF onProgress /\ store # NoStore THEN StoreOnProgress(store, info)
              ELSE store

\* the cadence of the 'processing' events: processedCount % 10 === 0
ProgressEvery == 10
\* (mutant) the events come twice as often
ProgressDue_Every5(count) == count % 5 = 0
ProgressDue(count) == count % ProgressEvery = 0

\* (mutant) the ratio is taken the wrong way round
ProcessingInfo_InvertedRatio(count, total) ==
    [current |-> count, total |-> total, percentage |-> MathRound(total * 100, count),
     stage |-> "processing",
     message |-> "Processing issue " \o ToString(count) \o " of " \o ToString(total)]
\* (mutant) Math.floor instead of Math.round
ProcessingInfo_Floor(count, total) ==
    [current |-> count, total |-> total, percentage |-> (count * 100) \div total,
     stage |-> "processing",
     message |-> "Processing issue " \o ToString(count) \o " of " \o ToString(total)]
\* the 'processing' event of the three loops
ProcessingInfo(count, total) ==
    ProgressInfo(count, total, MathRound(count * 100, total), "processing",
                 "Processing issue " \o ToString(count) \o " of " \o ToString(total))

\* config.format.toUpperCase()
ToUpperCase(format) ==
    CASE format = "xml" -> "XML"
      [] format = "json" -> "JSON"
      [] format = "csv" -> "CSV"
      [] OTHER -> "BOGUS"

\* (mutant) the event always carries the generic message
ErrorMessage_Generic(error) == "Export failed"
\* error instanceof Error ? error.message : 'Export failed'
ErrorMessage(error) == IF error.isError THEN error.message ELSE "Export failed"

\* a throw inside export's try block
Throw(error) == /\ thrown' = error
                /\ pc' = "catch"

-----------------------------------------------------------------------------
(* ExportService.export and its callees, one action per step between two   *)
(* observable effects (a progress event, a push, a call of saveAs).        *)

Total == Len(issues)

\* export: the first event, before the try block
ExportStart ==
    /\ pc = "export"
    /\ Emit(ProgressInfo(0, Total, 0, "processing",
                         "Starting " \o ToUpperCase(config.format) \o " export..."))
    /\ pc' = "switch"
    /\ UNCHANGED <<issues, config, onProgress, processedCount, acc, content,
                   saveAsCalls, delivered, thrown, outcome, projected, frames, browser>>

\* (mutant) the switch has no default branch: an unknown format does nothing
ExportSwitch_NoDefault ==
    /\ pc = "switch"
    /\ pc' = CASE config.format = "xml" -> "xml_prepare"
               [] config.format = "json" -> "json_loop"
               [] config.format = "csv" -> "csv_prepare"
               [] OTHER -> "return"
    /\ UNCHANGED <<issues, config, onProgress, processedCount, acc, content, events,
                   saveAsCalls, delivered, thrown, outcome, projected, frames, store, browser>>

\* export: switch (config.format)
ExportSwitch ==
    /\ pc = "switch"
    /\ CASE config.format = "xml" -> pc' = "xml_prepare" /\ UNCHANGED thrown
         [] config.format = "json" -> pc' = "json_loop" /\ UNCHANGED thrown
         [] config.format = "csv" -> pc' = "csv_prepare" /\ UNCHANGED thrown
         [] OTHER -> Throw(Error("Unsupported export format: " \o config.format))
    /\ UNCHANGED <<issues, config, onProgress, processedCount, acc, content, events,
                   saveAsCalls, delivered, outcome, projected, frames, store, browser>>

\* (mutant) the record is put in front of the accumulator
Push_Unshift(array, item) == << item >> \o array
\* array.push(item) on an accumulator
Push(array, item) == Append(array, item)

\* A step of one of the three `for (const issue of issues)` loops: project
\* the next issue, push the record, count it and report every 10th.
LoopStep(at, record) ==
    /\ pc = at
    /\ processedCount < Total
    /\ LET issue == issues[processedCount + 1]
       IN IF ProjectionThrows(issue)
          THEN /\ Throw(ProjectionError)
               /\ UNCHANGED <<processedCount, acc, events, store>>
          ELSE /\ acc' = Push(acc, record)
               /\ processedCount' = processedCount + 1
               /\ IF ProgressDue(processedCount')
                  THEN Emit(ProcessingInfo(processedCount', Total))
                  ELSE UNCHANGED <<events, store>>
               /\ UNCHANGED <<pc, thrown>>
    /\ UNCHANGED <<issues, config, onProgress, content, saveAsCalls, delivered,
                   outcome, projected, frames, browser>>

\* (mutant) the 'exporting' event is forgotten
ExportingStep_Silent(at, message, next) ==
    /\ pc = at
    /\ processedCount = Total
    /\ pc' = next
    /\ UNCHANGED <<issues, config, onProgress, processedCount, acc, content, events,
                   saveAsCalls, delivered, thrown, outcome, projected, frames, store, browser>>

\* The 'exporting' event after a loop.
ExportingStep(at, message, next) ==
    /\ pc = at
    /\ processedCount = Total
    /\ Emit(ProgressInfo(processedCount, Total, 100, "exporting", message))
    /\ pc' = next
    /\ UNCHANGED <<issues, config, onProgress, processedCount, acc, content,
                   saveAsCalls, delivered, thrown, outcome, projected, frames, browser>>

\* A call of a serialization library: it returns the document or throws.
SerializeStep(at, document, next) ==
    /\ pc = at
    /\ \E fails \in BOOLEAN :
         IF fails
         THEN Throw(Error("serialization failed")) /\ UNCHANGED content
         ELSE content' = document /\ pc' = next /\ UNCHANGED thrown
    /\ UNCHANGED <<issues, config, onProgress, processedCount, acc, events,
                   saveAsCalls, delivered, outcome, projected, frames, store, browser>>

\* (mutant) a failing saveAs has started the download before it throws
SaveAsStep_DeliversThenThrows(at, blob, next) ==
    /\ pc = at
    /\ saveAsCalls' = saveAsCalls + 1
    /\ delivered' = Append(delivered, blob)
    /\ \E fails \in BOOLEAN :
         IF fails THEN Throw(Error("download failed"))
         ELSE pc' = next /\ UNCHANGED thrown
    /\ UNCHANGED <<issues, config, onProgress, processedCount, acc, content, events,
                   outcome, projected, frames, store, browser>>

\* saveAs(blob, filename): the download is handed over, or saveAs throws.
SaveAsStep(at, blob, next) ==
    /\ pc = at
    /\ saveAsCalls' = saveAsCalls + 1
    /\ \E fails \in BOOLEAN :
         IF fails
         THEN Throw(Error("download failed")) /\ UNCHANGED delivered
         ELSE delivered' = Append(delivered, blob) /\ pc' = next /\ UNCHANGED thrown
    /\ UNCHANGED <<issues, config, onProgress, processedCount, acc, content, events,
                   outcome, projected, frames, store, browser>>

\* The 'complete' event of an encoder.
CompleteStep(at, message, next) ==
    /\ pc = at
    /\ Emit(ProgressInfo(processedCount, Total, 100, "complete", message))
    /\ pc' = next
    /\ UNCHANGED <<issues, config, onProgress, processedCount, acc, content,
                   saveAsCalls, delivered, thrown, outcome, projected, frames, browser>>

(* exportJson *)
JsonLoop == LoopStep("json_loop", processIssueForJson(issues[processedCount + 1], config))
JsonExporting == ExportingStep("json_loop", "Generating JSON...", "json_stringify")
JsonStringify == SerializeStep("json_stringify", JsonDocument(acc, Total), "json_saveAs")
JsonSaveAs ==
    SaveAsStep("json_saveAs", Blob(content, "application/json;charset=utf-8", "json"),
               "json_complete")
JsonComplete == CompleteStep("json_complete", "JSON export complete", "return")

(* exportCsv *)
CsvPrepare ==
    /\ pc = "csv_prepare"
    /\ Emit(ProgressInfo(0, Total, 0, "processing", "Preparing CSV export..."))
    /\ pc' = "csv_loop"
    /\ UNCHANGED <<issues, config, onProgress, processedCount, acc, content,
                   saveAsCalls, delivered, thrown, outcome, projected, frames, browser>>
CsvLoop == LoopStep("csv_loop", processIssueForCsv(issues[processedCount + 1], config))
CsvExporting == ExportingStep("csv_loop", "Generating CSV...", "csv_unparse")
CsvUnparse == SerializeStep("csv_unparse", PapaUnparse(acc), "csv_saveAs")
CsvSaveAs ==
    SaveAsStep("csv_saveAs", Blob(content, "text/csv;charset=utf-8", "csv"), "csv_complete")
CsvComplete == CompleteStep("csv_complete", "CSV export complete", "return")

(* XmlExporter.exportToXml, then exportXml's downloadXml *)
XmlPrepare ==
    /\ pc = "xml_prepare"
    /\ Emit(ProgressInfo(0, Total, 0, "processing", "Preparing XML export..."))
    /\ pc' = "xml_loop"
    /\ UNCHANGED <<issues, config, onProgress, processedCount, acc, content,
                   saveAsCalls, delivered, thrown, outcome, projected, frames, browser>>
XmlLoop == LoopStep("xml_loop", convertIssueToXml(issues[processedCount + 1], config))
XmlExporting == ExportingStep("xml_loop", "Generating XML...", "xml_build")
XmlBuild == SerializeStep("xml_build", XmlDocument(acc, Total), "xml_complete")
XmlComplete == CompleteStep("xml_complete", "Export complete", "xml_download")
DownloadXml ==
    SaveAsStep("xml_download", Blob(content, "application/xml;charset=utf-8", "xml"),
               "return")

\* the promise export returns
Promise(status, reason) == [status |-> status, reason |-> reason]

\* export: the callee returned, the promise resolves
ExportReturn ==
    /\ pc = "return"
    /\ outcome' = Promise("resolved", thrown)
    /\ pc' = "done"
    /\ UNCHANGED <<issues, config, onProgress, processedCount, acc, content, events,
                   saveAsCalls, delivered, thrown, projected, frames, store, browser>>

\* export: catch (error) { onProgress(error event); throw error; }
ExportCatch ==
    /\ pc = "catch"
    /\ Emit(ProgressInfo(0, Total, 0, "error", ErrorMessage(thrown)))
    /\ outcome' = Promise("rejected", thrown)
    /\ pc' = "done"
    /\ UNCHANGED <<issues, config, onProgress, processedCount, acc, content,
                   saveAsCalls, delivered, thrown, projected, frames, browser>>

Next ==
    \/ ExportStart \/ ExportSwitch
    \/ JsonLoop \/ JsonExporting \/ JsonStringify \/ JsonSaveAs \/ JsonComplete
    \/ CsvPrepare \/ CsvLoop \/ CsvExporting \/ CsvUnparse \/ CsvSaveAs \/ CsvComplete
    \/ XmlPrepare \/ XmlLoop \/ XmlExporting \/ XmlBuild \/ XmlComplete \/ DownloadXml
    \/ ExportReturn \/ ExportCatch

-----------------------------------------------------------------------------
(* The page around the export pipeline: the connection and query stores,   *)
(* the two browser storages, the requests in flight and the JIRA server.   *)
(* A text that is trimmed or stripped is kept as the sequence of its       *)
(* pieces: " " is white space, "/" a slash, anything else a run of other   *)
(* characters.                                                             *)

Text(pieces) == [t |-> "text", v |-> pieces]
EmptyText == Text(<< >>)

\* !text, for a string
IsEmpty(text) == Len(text.v) = 0

\* the initial state of useConnectionStore (ConnectionConfig has no email:
\* the key is missing until setConfig brings it)
connectionInitial ==
    [serverUrl |-> EmptyText, email |-> Undefined, token |-> EmptyText,
     isConnected |-> FALSE, isLoading |-> FALSE, error |-> Undefined,
     client |-> Null, userInfo |-> Null]

\* the page size the query store asks for
maxResults == 50

\* the initial state of useQueryStore
queryInitial ==
    [jql |-> EmptyText, results |-> << >>, totalCount |-> 0, isLoading |-> FALSE,
     error |-> Undefined, startAt |-> 0, maxResults |-> maxResults,
     selectedTemplate |-> Null, queryHistory |-> << >>]

\* no searchAll generator was made
NoGenerator == [pc |-> "none"]

\* a storage without the keys of STORAGE_KEYS: getItem returns null
EmptySession == [connection |-> Null]
EmptyLocal == [settings |-> Null, history |-> Null]

\* a server nobody talks to
NoServer == [t |-> "none"]

\* The page as the export pipeline sees it: nothing but the export runs.
PageLoaded ==
    /\ connection = connectionInitial
    /\ query = queryInitial
    /\ searchAll = NoGenerator
    /\ sessionStorage = EmptySession
    /\ localStorage = EmptyLocal
    /\ pending = << >>
    /\ server = NoServer
    /\ now = 0

-----------------------------------------------------------------------------
(* The runs.                                                               *)

Formats == {"xml", "json", "csv", "bogus"}

ExportConfig(format, flags, includeFields) ==
    [format |-> format,
     includeFields |-> includeFields,
     includeComments |-> "comment" \in flags,
     includeAttachments |-> "attachment" \in flags,
     includeWorklog |-> "worklog" \in flags,
     includeSubtasks |-> "subtasks" \in flags,
     includeLinks |-> "issuelinks" \in flags]

NoError == [isError |-> FALSE, message |-> ""]

\* the state of a call of export before its first statement
Called(list, cfg, callback) ==
    /\ issues = list
    /\ config = cfg
    /\ onProgress = callback
    /\ pc = "export"
    /\ processedCount = 0
    /\ acc = << >>
    /\ content = << >>
    /\ events = << >>
    /\ saveAsCalls = 0
    /\ delivered = << >>
    /\ thrown = NoError
    /\ outcome = Promise("pending", NoError)
    /\ projected = << >>
    /\ frames = << >>
    /\ store = NoStore
    /\ PageLoaded

\* Long lists of plain issues, at most one of them without `fields`.
Init ==
    \E n \in 0..MaxIssues, format \in Formats, callback \in BOOLEAN :
      \E bad \in 0..n :
        Called([i \in 1..n |-> MkIssue(i, i # bad, FALSE, {}, FALSE, Undefined)],
               ExportConfig(format, {}, << >>), callback)

Spec == Init /\ [][Next]_vars

\* Short lists of issues that differ in what they carry, under a
\* configuration with every inclusion flag off or every flag on.
DocShapes == [wellFormed : BOOLEAN, hasParent : BOOLEAN, sections : {{}, Sections}]

InitDoc ==
    \E n \in 0..MaxDocIssues, format \in Formats \ {"bogus"}, flags \in {{}, Sections} :
      \E shape \in [1..n -> DocShapes] :
        Called([i \in 1..n |-> MkIssue(i, shape[i].wellFormed, FALSE, shape[i].sections,
                                       shape[i].hasParent, Undefined)],
               ExportConfig(format, flags, << >>), TRUE)

SpecDoc == InitDoc /\ [][Next]_vars

-----------------------------------------------------------------------------
(* The projections of one issue, for every content of the issue and every  *)
(* configuration.                                                          *)

CustomValues ==
    << Undefined, Null, Str("x"), Obj([value |-> Str("v")]),
       Arr(<< Obj([name |-> Str("n")]), Str("s") >>) >>

IncludeFieldsValues == << << >>, << CustomKey >>, << PlainKey, CustomKey >> >>

InitProject ==
    \E relations \in BOOLEAN, sections \in SUBSET Sections, hasParent \in BOOLEAN,
       c \in 1..Len(CustomValues), flags \in SUBSET Sections,
       k \in 1..Len(IncludeFieldsValues) :
      /\ issues = << MkIssue(1, TRUE, relations, sections, hasParent, CustomValues[c]) >>
      /\ config = ExportConfig("json", flags, IncludeFieldsValues[k])
      /\ onProgress = FALSE
      /\ pc = "project"
      /\ processedCount = 0
      /\ acc = << >>
      /\ content = << >>
      /\ events = << >>
      /\ saveAsCalls = 0
      /\ delivered = << >>
      /\ thrown = NoError
      /\ outcome = Promise("pending", NoError)
      /\ projected = << >>
      /\ frames = << >>
      /\ store = NoStore
      /\ PageLoaded

\* the three projections of the issue under the configuration
Project ==
    /\ pc = "project"
    /\ projected' = [json |-> processIssueForJson(issues[1], config),
                     csv |-> processIssueForCsv(issues[1], config),
                     xml |-> convertIssueToXml(issues[1], config)]
    /\ pc' = "projected"
    /\ UNCHANGED <<issues, config, onProgress, processedCount, acc, content, events,
                   saveAsCalls, delivered, thrown, outcome, frames, store, browser>>

NextProject == Project

SpecProject == InitProject /\ [][NextProject]_vars

-----------------------------------------------------------------------------
(* The projections of one issue, for the shapes of the values whose        *)
(* projection depends on the shape: custom fields, issue links, worklogs   *)
(* and the optional relations.                                             *)

\* values of issue.fields[CustomKey]: missing, null, scalars (falsy ones
\* too), objects with and without value / name / displayName, arrays
ShapeCustomValues ==
    << Undefined, Null, Str("x"), Str(""), Num(0), Bool(FALSE),
       Obj([value |-> Str("v")]), Obj([value |-> Num(0)]), Obj([value |-> Null]),
       Obj([name |-> Str("n")]), Obj([displayName |-> Str("d")]),
       Obj([id |-> Str("7")]),
       Obj([value |-> Str("v"), name |-> Str("n"), displayName |-> Str("d")]),
       Arr(<< >>),
       Arr(<< Obj([value |-> Str("x")]) >>),
       Arr(<< Obj([value |-> Num(0)]) >>),
       Arr(<< Obj([value |-> Bool(FALSE)]) >>),
       Arr(<< Obj([value |-> Str("")]), Obj([name |-> Str("n")]) >>),
       Arr(<< Obj([value |-> Num(0), name |-> Str("n")]) >>),
       Arr(<< Obj([id |-> Str("7")]), Str("s"), Num(0) >>) >>

\* an issue link with the given outwardIssue and inwardIssue
IssueLink(outwardIssue, inwardIssue) ==
    [id |-> Str("l1"),
     type |-> [name |-> Str("Blocks"), inward |-> Str("is blocked by"),
               outward |-> Str("blocks")],
     outwardIssue |-> outwardIssue, inwardIssue |-> inwardIssue]

\* the four ways a link carries its issues
LinkShapes ==
    << IssueLink(LinkedIssue("PROJ-9"), LinkedIssue("PROJ-8")),
       IssueLink(LinkedIssue("PROJ-9"), Undefined),
       IssueLink(Undefined, LinkedIssue("PROJ-8")),
       IssueLink(Undefined, Undefined) >>

\* the timeSpentSeconds of the worklogs an issue lists
WorklogShapes == << << 3600, 1800 >>, << 2070 >>, << 1800, 270 >>, << >> >>

\* fields.worklog with the listed worklogs; `more` worklogs of the issue
\* are counted by `total` without being listed
WorklogOf(seconds, more) ==
    [total |-> Num(Len(seconds) + more),
     worklogs |-> Arr([k \in 1..Len(seconds) |-> Worklog("w" \o ToString(k), seconds[k])])]

\* the issue with fields[name] = value
With(issue, name, value) == [issue EXCEPT !.fields = [@ EXCEPT ![name] = value]]

InitShapes ==
    \E relations \in BOOLEAN, c \in 1..Len(ShapeCustomValues),
       l \in 1..Len(LinkShapes), w \in 1..Len(WorklogShapes), more \in 0..1,
       flags \in {{}, Sections}, k \in 1..Len(IncludeFieldsValues) :
      /\ SumSeconds(WorklogOf(WorklogShapes[w], more).worklogs, 1) <= MaxSeconds
      /\ issues = << With(With(MkIssue(1, TRUE, relations, Sections, FALSE,
                                       ShapeCustomValues[c]),
                               "issuelinks", Arr(<< LinkShapes[l] >>)),
                          "worklog", WorklogOf(WorklogShapes[w], more)) >>
      /\ config = ExportConfig("json", flags, IncludeFieldsValues[k])
      /\ onProgress = FALSE
      /\ pc = "project"
      /\ processedCount = 0
      /\ acc = << >>
      /\ content = << >>
      /\ events = << >>
      /\ saveAsCalls = 0
      /\ delivered = << >>
      /\ thrown = NoError
      /\ outcome = Promise("pending", NoError)
      /\ projected = << >>
      /\ frames = << >>
      /\ store = NoStore
      /\ PageLoaded

SpecShapes == InitShapes /\ [][NextProject]_vars

-----------------------------------------------------------------------------
(* Two calls of export on the one ExportService instance.  JavaScript runs *)
(* a call until it awaits: the variables above are the locals of the call  *)
(* that is running, `frames` holds the locals of the other call, and the   *)
(* two change places where the running call awaits or has returned.        *)

\* longest issue list of a call of SpecTwo
MaxTwoIssues == 10

\* the locals of the running call (arguments, accumulator, counters), the
\* events its callback received and what it handed to saveAs
Frame ==
    [issues |-> issues, config |-> config, onProgress |-> onProgress, pc |-> pc,
     processedCount |-> processedCount, acc |-> acc, content |-> content,
     events |-> events, saveAsCalls |-> saveAsCalls, delivered |-> delivered,
     thrown |-> thrown, outcome |-> outcome]

\* the locals of a call that has not executed its first statement
NewFrame(list, cfg, callback) ==
    [issues |-> list, config |-> cfg, onProgress |-> callback, pc |-> "export",
     processedCount |-> 0, acc |-> << >>, content |-> << >>, events |-> << >>,
     saveAsCalls |-> 0, delivered |-> << >>, thrown |-> NoError,
     outcome |-> Promise("pending", NoError)]

\* The running call is suspended: `await this.xmlExporter.exportToXml(...)`
\* in exportXml, `await this.exportXml / exportJson / exportCsv(...)` in
\* export, the latter also when the awaited promise is rejected (the throw
\* of the default branch is caught without an await).
Awaiting ==
    \/ pc = "xml_download"
    \/ pc = "return"
    \/ pc = "catch" /\ config.format \in Formats \ {"bogus"}

\* (mutant) the serialized document is kept on the instance, not in the call
Resume_SharedContent ==
    /\ frames # << >>
    /\ Awaiting \/ pc = "done"
    /\ \E k \in 1..Len(frames) :
          /\ frames[k].pc # "done"
          /\ frames' = [frames EXCEPT ![k] = Frame]
          /\ issues' = frames[k].issues
          /\ config' = frames[k].config
          /\ onProgress' = frames[k].onProgress
          /\ pc' = frames[k].pc
          /\ processedCount' = frames[k].processedCount
          /\ acc' = frames[k].acc
          /\ events' = frames[k].events
          /\ saveAsCalls' = frames[k].saveAsCalls
          /\ delivered' = frames[k].delivered
          /\ thrown' = frames[k].thrown
          /\ outcome' = frames[k].outcome
    /\ UNCHANGED <<content, projected, store, browser>>

\* The event loop runs the other call: it starts, or resumes after its
\* await, with its own locals, and the locals of this call are kept.
Resume ==
    /\ frames # << >>
    /\ Awaiting \/ pc = "done"
    /\ \E k \in 1..Len(frames) :
          /\ frames[k].pc # "done"
          /\ frames' = [frames EXCEPT ![k] = Frame]
          /\ issues' = frames[k].issues
          /\ config' = frames[k].config
          /\ onProgress' = frames[k].onProgress
          /\ pc' = frames[k].pc
          /\ processedCount' = frames[k].processedCount
          /\ acc' = frames[k].acc
          /\ content' = frames[k].content
          /\ events' = frames[k].events
          /\ saveAsCalls' = frames[k].saveAsCalls
          /\ delivered' = frames[k].delivered
          /\ thrown' = frames[k].thrown
          /\ outcome' = frames[k].outcome
    /\ UNCHANGED <<projected, store, browser>>

\* the lengths of the issue lists of the two calls, and the id of the
\* first issue of the second list (the same issues, or other ones)
TwoLengths == {0, 1, MaxTwoIssues}
TwoBases == {0, 100}

\* a list of n plain issues numbered from base + 1, the last one without
\* its `fields` if illFormed
IssueList(n, base, illFormed) ==
    [i \in 1..n |-> MkIssue(base + i, ~(illFormed /\ i = n), FALSE, {}, FALSE, Undefined)]

InitTwo ==
    \E n1 \in TwoLengths, n2 \in TwoLengths, format1 \in Formats, format2 \in Formats,
       bad1 \in BOOLEAN, bad2 \in BOOLEAN, base \in TwoBases :
      /\ issues = IssueList(n1, 0, bad1)
      /\ config = ExportConfig(format1, {}, << >>)
      /\ onProgress = TRUE
      /\ pc = "export"
      /\ processedCount = 0
      /\ acc = << >>
      /\ content = << >>
      /\ events = << >>
      /\ saveAsCalls = 0
      /\ delivered = << >>
      /\ thrown = NoError
      /\ outcome = Promise("pending", NoError)
      /\ projected = << >>
      /\ frames = << NewFrame(IssueList(n2, base, bad2),
                              ExportConfig(format2, {}, << >>), TRUE) >>
      /\ store = NoStore
      /\ PageLoaded

NextTwo == Next \/ Resume

SpecTwo == InitTwo /\ [][NextTwo]_vars

-----------------------------------------------------------------------------
(* The export store (useExportStore).  `store` holds its config, state and *)
(* progressInfo, the results of the query store that exportData reads, and *)
(* a clock that new Date() reads.  zustand's set() merges the top level    *)
(* only: set({state: {...}}) replaces the whole `state` object, and a key   *)
(* the new object does not name is undefined afterwards.                   *)

\* exportData calls of a run of SpecStore
MaxExports == 2
\* longest result list of SpecStore
MaxStoreIssues == 2

\* new Date() at a given reading of the clock
Date(clock) == [t |-> "date", v |-> clock]

defaultConfig == ExportConfig("xml", {"subtasks"}, << >>)

\* the `state` a store is created with, and the one resetState sets
initialState ==
    [isExporting |-> FALSE, progress |-> Num(0), error |-> Undefined,
     lastExportedAt |-> Undefined, totalItems |-> Undefined,
     processedItems |-> Undefined]

\* the result lists of the query store
ResultLists ==
    { IssueList(n, 0, bad) : n \in 0..MaxStoreIssues, bad \in BOOLEAN }

\* setConfig(configUpdate), for an update of the format
setConfig ==
    /\ store # NoStore
    /\ \E format \in Formats : store' = [store EXCEPT !.config.format = format]
    /\ UNCHANGED <<issues, config, onProgress, pc, processedCount, acc, content, events,
                   saveAsCalls, delivered, thrown, outcome, projected, frames, browser>>

\* the query store replaces its results (executeQuery, clearResults)
QueryResults ==
    /\ store # NoStore
    /\ pc = "idle"
    /\ \E list \in ResultLists : store' = [store EXCEPT !.results = list]
    /\ UNCHANGED <<issues, config, onProgress, pc, processedCount, acc, content, events,
                   saveAsCalls, delivered, thrown, outcome, projected, frames, browser>>

\* (mutant) exportData without its guard on an empty result list
exportData_Unguarded ==
    /\ store # NoStore
    /\ pc = "idle"
    /\ store.clock < MaxExports
    /\ store' = [store EXCEPT
                    !.clock = @ + 1,
                    !.state = [isExporting |-> TRUE, progress |-> Num(0),
                               error |-> Undefined,
                               totalItems |-> Num(Len(store.results)),
                               processedItems |-> Num(0)],
                    !.progressInfo = ProgressInfo(0, Len(store.results), 0,
                                                  "processing", "Starting export...")]
    /\ issues' = store.results
    /\ config' = store.config
    /\ onProgress' = TRUE
    /\ pc' = "export"
    /\ processedCount' = 0
    /\ acc' = << >>
    /\ content' = << >>
    /\ events' = << >>
    /\ saveAsCalls' = 0
    /\ delivered' = << >>
    /\ thrown' = NoError
    /\ outcome' = Promise("pending", NoError)
    /\ UNCHANGED <<projected, frames, browser>>

\* exportData, up to its call of exportService.export: with no results it
\* sets the error and returns; otherwise it sets the starting state and
\* calls export with the results, the config and its callback
exportData ==
    /\ store # NoStore
    /\ pc = "idle"
    /\ store.clock < MaxExports
    /\ IF Len(store.results) = 0
       THEN /\ store' = [store EXCEPT
                           !.clock = @ + 1,
                           !.state = [isExporting |-> FALSE, progress |-> Num(0),
                                      error |-> Str("No data to export. Please execute a query first.")]]
            /\ UNCHANGED <<issues, config, onProgress, pc, processedCount, acc, content,
                           events, saveAsCalls, delivered, thrown, outcome>>
       ELSE /\ store' = [store EXCEPT
                           !.clock = @ + 1,
                           !.state = [isExporting |-> TRUE, progress |-> Num(0),
                                      error |-> Undefined,
                                      totalItems |-> Num(Len(store.results)),
                                      processedItems |-> Num(0)],
                           !.progressInfo = ProgressInfo(0, Len(store.results), 0,
                                                         "processing",
                                                         "Starting export...")]
            /\ issues' = store.results
            /\ config' = store.config
            /\ onProgress' = TRUE
            /\ pc' = "export"
            /\ processedCount' = 0
            /\ acc' = << >>
            /\ content' = << >>
            /\ events' = << >>
            /\ saveAsCalls' = 0
            /\ delivered' = << >>
            /\ thrown' = NoError
            /\ outcome' = Promise("pending", NoError)
    /\ UNCHANGED <<projected, frames, browser>>

\* exportData is over: no call of export is in progress, and the locals,
\* the callback and the promise of the last one are gone
Returned ==
    /\ pc' = "idle"
    /\ issues' = << >>
    /\ config' = defaultConfig
    /\ onProgress' = TRUE
    /\ processedCount' = 0
    /\ acc' = << >>
    /\ content' = << >>
    /\ events' = << >>
    /\ saveAsCalls' = 0
    /\ delivered' = << >>
    /\ thrown' = NoError
    /\ outcome' = Promise("pending", NoError)

\* exportData after `await exportService.export(...)` returned
exportDataSucceeded ==
    /\ store # NoStore
    /\ pc = "done"
    /\ outcome.status = "resolved"
    /\ store' = [store EXCEPT
                    !.state = [isExporting |-> FALSE, progress |-> Num(100),
                               error |-> Undefined,
                               lastExportedAt |-> Date(store.clock),
                               totalItems |-> Num(Len(issues)),
                               processedItems |-> Num(Len(issues))],
                    !.progressInfo = Null]
    /\ Returned
    /\ UNCHANGED <<projected, frames, browser>>

\* exportData's catch clause
exportDataFailed ==
    /\ store # NoStore
    /\ pc = "done"
    /\ outcome.status = "rejected"
    /\ LET errorMessage == ErrorMessage(outcome.reason)
       IN store' = [store EXCEPT
                       !.state = [isExporting |-> FALSE, progress |-> Num(0),
                                  error |-> Str(errorMessage),
                                  lastExportedAt |-> Undefined],
                       !.progressInfo = ProgressInfo(0, Len(issues), 0, "error",
                                                     errorMessage)]
    /\ Returned
    /\ UNCHANGED <<projected, frames, browser>>

\* (mutant) cancelExport ends the run in flight: its callback and its
\* completion are never seen
cancelExport_Interrupts ==
    /\ store # NoStore
    /\ store' = [store EXCEPT
                    !.state = [isExporting |-> FALSE, progress |-> Num(0),
                               error |-> Undefined],
                    !.progressInfo = Null]
    /\ Returned
    /\ UNCHANGED <<projected, frames, browser>>
\* cancelExport(): sets `state` and progressInfo, at any point of a run or
\* outside one; it has no handle on the call of export
cancelExport ==
    /\ store # NoStore
    /\ store' = [store EXCEPT
                    !.state = [isExporting |-> FALSE, progress |-> Num(0),
                               error |-> Undefined],
                    !.progressInfo = Null]
    /\ UNCHANGED <<issues, config, onProgress, pc, processedCount, acc, content, events,
                   saveAsCalls, delivered, thrown, outcome, projected, frames, browser>>

clearProgress ==
    /\ store # NoStore
    /\ store' = [store EXCEPT !.progressInfo = Null]
    /\ UNCHANGED <<issues, config, onProgress, pc, processedCount, acc, content, events,
                   saveAsCalls, delivered, thrown, outcome, projected, frames, browser>>

resetState ==
    /\ store # NoStore
    /\ store' = [store EXCEPT !.state = initialState, !.progressInfo = Null]
    /\ UNCHANGED <<issues, config, onProgress, pc, processedCount, acc, content, events,
                   saveAsCalls, delivered, thrown, outcome, projected, frames, browser>>

InitStore ==
    /\ store = [results |-> << >>, config |-> defaultConfig, state |-> initialState,
                progressInfo |-> Null, clock |-> 0]
    /\ issues = << >>
    /\ config = defaultConfig
    /\ onProgress = TRUE
    /\ pc = "idle"
    /\ processedCount = 0
    /\ acc = << >>
    /\ content = << >>
    /\ events = << >>
    /\ saveAsCalls = 0
    /\ delivered = << >>
    /\ thrown = NoError
    /\ outcome = Promise("pending", NoError)
    /\ projected = << >>
    /\ frames = << >>
    /\ PageLoaded

NextStore ==
    \/ Next
    \/ QueryResults \/ setConfig
    \/ exportData \/ exportDataSucceeded \/ exportDataFailed
    \/ cancelExport \/ clearProgress \/ resetState

SpecStore == InitStore /\ [][NextStore]_vars

-----------------------------------------------------------------------------
(* The connection store (useConnectionStore), the StorageService it saves  *)
(* the connection with, the JiraClient it makes and the connection form.   *)
(* A call of testConnection runs up to its `await client.testConnection()`;*)
(* the request then waits in `pending` with the locals of the call, and    *)
(* the call goes on when the server answers.                               *)

\* requests in flight at a time
MaxPending == 2

\* text.trim()
Trim(text) ==
    LET inked == { k \in 1..Len(text.v) : text.v[k] # " " }
    IN IF inked = {} THEN EmptyText
       ELSE Text(SubSeq(text.v,
                        CHOOSE k \in inked : \A j \in inked : k <= j,
                        CHOOSE k \in inked : \A j \in inked : k >= j))

\* serverUrl.replace(/\/$/, '')
StripTrailingSlash(text) ==
    IF ~IsEmpty(text) /\ text.v[Len(text.v)] = "/"
    THEN Text(SubSeq(text.v, 1, Len(text.v) - 1))
    ELSE text

\* new JiraClient(serverUrl, token), with the Authorization header of its
\* axios instance
JiraClient(serverUrl, token) ==
    [serverUrl |-> StripTrailingSlash(serverUrl), token |-> token,
     authorization |-> Text(<< "Bearer", " " >> \o token.v)]

\* StorageService.getDefaultSettings()
getDefaultSettings ==
    [theme |-> "light", maxResults |-> 100, autoSave |-> TRUE,
     showAdvancedOptions |-> FALSE, defaultExportFormat |-> "xml",
     rememberCredentials |-> FALSE]

\* StorageService.loadSettings(): the defaults under what is stored
loadSettings ==
    IF localStorage.settings = Null THEN getDefaultSettings
    ELSE [k \in DOMAIN getDefaultSettings |->
            IF k \in DOMAIN localStorage.settings THEN localStorage.settings[k]
            ELSE getDefaultSettings[k]]

\* (mutant) the credentials are stored whatever the preference is
dataToStore_Always(connectionConfig, rememberCredentials) ==
    DropUndefined([serverUrl |-> connectionConfig.serverUrl,
                   email |-> Get(connectionConfig, "email"),
                   token |-> connectionConfig.token,
                   isConnected |-> Bool(FALSE)])
\* the object saveConnection stores, as JSON.stringify writes it
dataToStore(connectionConfig, rememberCredentials) ==
    DropUndefined([serverUrl |-> connectionConfig.serverUrl,
                   email |-> IF rememberCredentials THEN Get(connectionConfig, "email")
                             ELSE EmptyText,
                   token |-> IF rememberCredentials THEN connectionConfig.token ELSE EmptyText,
                   isConnected |-> Bool(FALSE)])

\* text || '' of loadConnection, for a stored text or a missing key
OrEmpty(value) == IF Nullish(value) THEN EmptyText ELSE value

\* StorageService.loadConnection() and the setConfig(savedConnection) the
\* store module runs when it is loaded: the state the store starts with
\* when the session holds the entry `stored`
loadedConnection(stored) ==
    IF stored = Null \/ IsEmpty(OrEmpty(Get(stored, "serverUrl")))
    THEN connectionInitial
    ELSE [connectionInitial EXCEPT
            !.serverUrl = OrEmpty(Get(stored, "serverUrl")),
            !.email = OrEmpty(Get(stored, "email")),
            !.token = OrEmpty(Get(stored, "token")),
            !.isConnected = FALSE,
            !.isLoading = FALSE]

\* the locals of a call of testConnection at its await: `state` and
\* `client`.  `orphaned` is not a local: it records that disconnect ran
\* while the request was in flight, and no operation reads it.
TestRequest(state) ==
    [call |-> "testConnection",
     state |-> [serverUrl |-> state.serverUrl, token |-> state.token],
     client |-> JiraClient(state.serverUrl, state.token),
     orphaned |-> FALSE]

\* testConnection up to its await, called on the store state `state`
testConnectionBegins(state) ==
    IF IsEmpty(state.serverUrl) \/ IsEmpty(state.token)
    THEN /\ connection' = [state EXCEPT
                             !.error = Str("Please provide server URL and API token")]
         /\ UNCHANGED pending
    ELSE /\ Len(pending) < MaxPending
         /\ connection' = [state EXCEPT !.isLoading = TRUE, !.error = Undefined]
         /\ pending' = Append(pending, TestRequest(state))

testConnection ==
    /\ server # NoServer
    /\ testConnectionBegins(connection)
    /\ UNCHANGED <<pipeline, now, query, searchAll, sessionStorage,
                   localStorage, server>>

\* connect(serverUrl, token): set the trimmed arguments, then
\* get().testConnection()
connect(serverUrl, token) ==
    /\ server # NoServer
    /\ testConnectionBegins([connection EXCEPT !.serverUrl = Trim(serverUrl),
                                               !.token = Trim(token)])
    /\ UNCHANGED <<pipeline, now, query, searchAll, sessionStorage,
                   localStorage, server>>

\* ConnectionSetup.handleSubmit(values): clearError(), then
\* connect(values.serverUrl, values.email, values.token), whose parameters
\* (serverUrl, token) take the first two arguments
handleSubmit(values) ==
    /\ server # NoServer
    /\ testConnectionBegins([connection EXCEPT !.error = Undefined,
                                               !.serverUrl = Trim(values.serverUrl),
                                               !.token = Trim(values.email)])
    /\ UNCHANGED <<pipeline, now, query, searchAll, sessionStorage,
                   localStorage, server>>

\* the pending requests but the k-th
Others(k) == SubSeq(pending, 1, k - 1) \o SubSeq(pending, k + 1, Len(pending))

\* the state the catch clause of testConnection sets
ConnectionFailed(message) ==
    [connection EXCEPT !.client = Null, !.userInfo = Null, !.isConnected = FALSE,
                       !.isLoading = FALSE, !.error = Str(message)]

\* testConnection after its await: the server answered the k-th request,
\* or the request failed.  On success the store is connected and the
\* connection is saved; sessionStorage.setItem may throw (the quota), and
\* the throw is caught by the same catch clause.
testConnectionResponds(k) ==
    /\ server # NoServer
    /\ pending[k].call = "testConnection"
    /\ pending' = Others(k)
    /\ \E network \in BOOLEAN, quota \in BOOLEAN :
         IF network /\ pending[k].client.authorization.v \in server.authorized
         THEN IF quota
              THEN /\ connection' = [connection EXCEPT
                                       !.client = pending[k].client,
                                       !.userInfo = server.myself,
                                       !.isConnected = TRUE,
                                       !.isLoading = FALSE,
                                       !.error = Undefined]
                   /\ sessionStorage' =
                        [sessionStorage EXCEPT
                           !.connection = dataToStore(pending[k].state,
                                                      loadSettings.rememberCredentials)]
              ELSE /\ connection' = ConnectionFailed("QuotaExceededError")
                   /\ UNCHANGED sessionStorage
         ELSE /\ connection' =
                   ConnectionFailed(IF network
                                    THEN "Authentication failed. Please check your credentials."
                                    ELSE "Network Error")
              /\ UNCHANGED sessionStorage
    /\ UNCHANGED <<pipeline, now, query, searchAll, localStorage, server>>

\* disconnect(): the store is reset and clearConnection() removes the entry
disconnect ==
    /\ server # NoServer
    /\ connection' = [connection EXCEPT !.isConnected = FALSE, !.client = Null,
                                        !.userInfo = Null, !.error = Undefined]
    /\ sessionStorage' = [sessionStorage EXCEPT !.connection = Null]
    /\ pending' = [k \in 1..Len(pending) |->
                     IF pending[k].call = "testConnection"
                     THEN [pending[k] EXCEPT !.orphaned = TRUE] ELSE pending[k]]
    /\ UNCHANGED <<pipeline, now, query, searchAll, localStorage, server>>

\* StorageService.saveConnection(config, rememberCredentials) with the
\* store as config
saveConnection(rememberCredentials) ==
    /\ server # NoServer
    /\ sessionStorage' = [sessionStorage EXCEPT
                            !.connection = dataToStore(connection, rememberCredentials)]
    /\ UNCHANGED <<pipeline, now, connection, query, searchAll, localStorage,
                   pending, server>>

\* StorageService.saveSettings(settings) for the settings with the
\* preference changed; a throw of localStorage.setItem is caught
saveSettings(rememberCredentials) ==
    /\ server # NoServer
    /\ \E quota \in BOOLEAN :
         localStorage' =
            IF quota
            THEN [localStorage EXCEPT
                    !.settings = [loadSettings EXCEPT
                                    !.rememberCredentials = rememberCredentials]]
            ELSE localStorage
    /\ UNCHANGED <<pipeline, now, connection, query, searchAll, sessionStorage,
                   pending, server>>

\* what the user may type into the connection form
ServerUrls == { Text(<< " ", "https://jira.example.org", "/" >>) }
Emails == { Text(<< "me@example.org", " " >>) }
Tokens == { Text(<< "pat-1" >>), Text(<< " ", "pat-2", " " >>) }
FormValues == [serverUrl : ServerUrls, email : Emails, token : Tokens]

\* the server: the Authorization headers it accepts and its /myself
JiraServer ==
    [authorized |-> { << "Bearer", " ", "pat-1" >>, << "Bearer", " ", "pat-2" >> },
     myself |-> User("me")]

\* no export is going on and none was made
NoExport ==
    /\ issues = << >>
    /\ config = defaultConfig
    /\ onProgress = FALSE
    /\ pc = "idle"
    /\ processedCount = 0
    /\ acc = << >>
    /\ content = << >>
    /\ events = << >>
    /\ saveAsCalls = 0
    /\ delivered = << >>
    /\ thrown = NoError
    /\ outcome = Promise("pending", NoError)
    /\ projected = << >>
    /\ frames = << >>
    /\ store = NoStore

\* The page is loaded in a session that is new or holds the entry of an
\* earlier page, with the preference stored or not.
InitConnection ==
    \E remember \in BOOLEAN, saved \in {"none", "url", "credentials"} :
      /\ NoExport
      /\ localStorage =
           [EmptyLocal EXCEPT
              !.settings = IF remember
                           THEN [getDefaultSettings EXCEPT !.rememberCredentials = TRUE]
                           ELSE Null]
      /\ sessionStorage =
           [connection |->
              IF saved = "none" THEN Null
              ELSE dataToStore([serverUrl |-> Text(<< "https://jira.example.org" >>),
                                token |-> Text(<< "pat-1" >>)],
                               saved = "credentials")]
      /\ connection = loadedConnection(sessionStorage.connection)
      /\ query = queryInitial
      /\ searchAll = NoGenerator
      /\ pending = << >>
      /\ server = JiraServer
      /\ now = 0

NextConnection ==
    \/ testConnection
    \/ \E serverUrl \in ServerUrls, token \in Tokens : connect(serverUrl, token)
    \/ \E values \in FormValues : handleSubmit(values)
    \/ \E k \in 1..Len(pending) : testConnectionResponds(k)
    \/ disconnect
    \/ \E rememberCredentials \in BOOLEAN : saveConnection(rememberCredentials)
    \/ \E rememberCredentials \in BOOLEAN : saveSettings(rememberCredentials)

SpecConnection == InitConnection /\ [][NextConnection]_vars

-----------------------------------------------------------------------------
(* JiraClient.search and the generator JiraClient.searchAll.  The server   *)
(* answers a search with the issues of the result set from startAt on, at  *)
(* most maxResults of them and at most its own page size cap.  A call of   *)
(* next() runs the generator up to its next await or to its end.           *)

\* largest result set of a query
MaxTotal == 5

Min(a, b) == IF a <= b THEN a ELSE b

\* the index-th issue (from 0) of the result set of jql
Found(jql, index) == [jql |-> jql, index |-> index]

\* JiraSearchResponse of GET /search?jql=..&startAt=..&maxResults=..
SearchResponse(jql, startAt, limit) ==
    LET total == server.totals[jql]
        count == IF startAt >= total THEN 0
                 ELSE Min(Min(limit, server.cap), total - startAt)
    IN [startAt |-> startAt, maxResults |-> Min(limit, server.cap), total |-> total,
        issues |-> [i \in 1..count |-> Found(jql, startAt + i - 1)]]

\* a server with the given result sets and page size cap
SearchServer(totals, cap) ==
    [authorized |-> JiraServer.authorized, myself |-> JiraServer.myself,
     totals |-> totals, cap |-> cap]

\* the generator object searchAll(jql, batchSize, fields, expand,
\* onProgress) returns: no statement of the body has run
Generator(jql, batchSize, callback) ==
    [pc |-> "created", jql |-> jql, batchSize |-> batchSize, onProgress |-> callback,
     startAt |-> 0, total |-> 0, response |-> Null, yielded |-> << >>,
     reported |-> Null]

\* the request of this.search(jql, startAt, batchSize, fields, expand)
SearchAllRequest(generator) ==
    [call |-> "searchAll", jql |-> generator.jql, startAt |-> generator.startAt,
     maxResults |-> generator.batchSize]

\* next() on the generator: the first call enters the loop and sends the
\* first request; a call after a yield reports the progress, advances
\* startAt by batchSize and either leaves the loop or sends the next request
searchAllNext ==
    /\ searchAll.pc \in {"created", "yielded"}
    /\ IF searchAll.pc = "created"
       THEN /\ searchAll' = [searchAll EXCEPT !.pc = "awaiting"]
            /\ pending' = Append(pending, SearchAllRequest(searchAll))
       ELSE LET resumed ==
                  [searchAll EXCEPT
                     !.reported = IF searchAll.onProgress
                                  THEN [current |-> searchAll.startAt
                                                      + Len(searchAll.response.issues),
                                        total |-> searchAll.total]
                                  ELSE @,
                     !.startAt = @ + searchAll.batchSize]
            IN IF resumed.startAt >= searchAll.response.total
               THEN /\ searchAll' = [resumed EXCEPT !.pc = "done"]
                    /\ UNCHANGED pending
               ELSE /\ searchAll' = [resumed EXCEPT !.pc = "awaiting"]
                    /\ pending' = Append(pending, SearchAllRequest(resumed))
    /\ UNCHANGED <<pipeline, now, connection, query, sessionStorage,
                   localStorage, server>>

\* the request of the generator is answered: the generator takes the total
\* of the first response (of every response while total is 0) and yields
\* the response; a failed request throws out of the generator
searchAllResponds ==
    /\ searchAll.pc = "awaiting"
    /\ \E k \in 1..Len(pending), network \in BOOLEAN :
         /\ pending[k].call = "searchAll"
         /\ pending' = Others(k)
         /\ IF network
            THEN LET response == SearchResponse(pending[k].jql, pending[k].startAt,
                                                pending[k].maxResults)
                 IN searchAll' =
                      [searchAll EXCEPT
                         !.pc = "yielded",
                         !.total = IF @ = 0 THEN response.total ELSE @,
                         !.response = response,
                         !.yielded = @ \o response.issues]
            ELSE searchAll' = [searchAll EXCEPT !.pc = "thrown"]
    /\ UNCHANGED <<pipeline, now, connection, query, sessionStorage,
                   localStorage, server>>

\* issues are created or resolved on the server: the result set of a query
\* grows or shrinks
ResultSetChanges ==
    /\ searchAll.pc \in {"awaiting", "yielded"}
    /\ \E jql \in DOMAIN server.totals, total \in 0..MaxTotal :
         /\ total # server.totals[jql]
         /\ server' = [server EXCEPT !.totals[jql] = total]
    /\ UNCHANGED <<pipeline, now, connection, query, searchAll, sessionStorage,
                   localStorage, pending>>

\* the arguments of searchAll (100 is the default batchSize) and the page
\* size caps of the server (1000 is above every batchSize)
BatchSizes == {0, 1, 2, 3, 100}
PageCaps == {1, 2, 1000}
TheJql == Text(<< "project = A" >>)

InitSearchAll ==
    \E total \in 0..MaxTotal, batchSize \in BatchSizes, cap \in PageCaps,
       callback \in BOOLEAN :
      /\ NoExport
      /\ connection = connectionInitial
      /\ query = queryInitial
      /\ searchAll = Generator(TheJql, batchSize, callback)
      /\ sessionStorage = EmptySession
      /\ localStorage = EmptyLocal
      /\ pending = << >>
      /\ server = SearchServer([jql \in {TheJql} |-> total], cap)
      /\ now = 0

NextSearchAll == searchAllNext \/ searchAllResponds

\* the result set does not change while the generator runs
SpecSearchAll == InitSearchAll /\ [][NextSearchAll]_vars

NextSearchAllLive == searchAllNext \/ searchAllResponds \/ ResultSetChanges

\* The result set may change between two pages; the consumer keeps calling
\* next() and every request is answered or fails.
SpecSearchAllLive ==
    /\ InitSearchAll
    /\ [][NextSearchAllLive]_vars
    /\ WF_vars(searchAllNext)
    /\ WF_vars(searchAllResponds)

-----------------------------------------------------------------------------
(* The query store (useQueryStore) and the query history of the            *)
(* StorageService.  executeQuery and loadMoreResults run up to their       *)
(* `await connectionState.client.search(...)`; the request waits in        *)
(* `pending` with the `state` the call read at its start, and the call     *)
(* goes on when the server answers.  `server.outages` is the number of     *)
(* searches the server will still fail, and `server.executed` the query of *)
(* the last search it got from executeQuery (a log: no operation reads it).*)

\* readings of the clock (calls of new Date()) in a run
MaxDates == 3

\* the entries the query history keeps
HistoryLimit == 50

\* new Date() as JSON.stringify writes it, and new Date(item.executedAt)
ToISOString(date) == [t |-> "iso", v |-> date.v]
ParseDate(text) == [t |-> "date", v |-> text.v]

\* StorageService.loadQueryHistory(): the stored entries with their dates
\* parsed, [] when nothing is stored
loadQueryHistory(stored) ==
    IF stored = Null THEN << >>
    ELSE [i \in 1..Length(stored) |->
            [stored.items[i] EXCEPT !.executedAt = ParseDate(@)]]

\* array.slice(0, end)
Slice(array, end) == SubSeq(array, 1, Min(end, Len(array)))

\* (mutant) the entry of the query is added without removing the old one
HistoryWith_Duplicates(stored, jql, resultCount) ==
    LET history == loadQueryHistory(stored)
        entry == [jql |-> jql, resultCount |-> resultCount, executedAt |-> Date(now)]
        trimmed == Slice(<< entry >> \o history, HistoryLimit)
    IN Arr([i \in 1..Len(trimmed) |->
              [trimmed[i] EXCEPT !.executedAt = ToISOString(@)]])
\* what addToQueryHistory(jql, resultCount) writes over the stored
\* history: the entries of other queries behind the new entry, cut to
\* HistoryLimit, as JSON.stringify writes them
HistoryWith(stored, jql, resultCount) ==
    LET history == loadQueryHistory(stored)
        filtered == SelectSeq(history, LAMBDA item : item.jql # jql)
        entry == [jql |-> jql, resultCount |-> resultCount, executedAt |-> Date(now)]
        trimmed == Slice(<< entry >> \o filtered, HistoryLimit)
    IN Arr([i \in 1..Len(trimmed) |->
              [trimmed[i] EXCEPT !.executedAt = ToISOString(@)]])

\* StorageService.addToQueryHistory(jql, resultCount); a throw of
\* localStorage.setItem is caught and the history stays as it was
addToQueryHistory(jql, resultCount) ==
    /\ server # NoServer
    /\ now < MaxDates
    /\ now' = now + 1
    /\ \E quota \in BOOLEAN :
         localStorage' = IF quota
                         THEN [localStorage EXCEPT
                                 !.history = HistoryWith(@, jql, resultCount)]
                         ELSE localStorage
    /\ UNCHANGED <<pipeline, connection, query, searchAll, sessionStorage, pending,
                   server>>

\* setJql(jql)
setJql(jql) ==
    /\ server # NoServer
    /\ query' = [query EXCEPT !.jql = jql, !.selectedTemplate = Null]
    /\ UNCHANGED <<pipeline, now, connection, searchAll, sessionStorage, localStorage,
                   pending, server>>

\* the locals of a call of executeQuery or loadMoreResults at its await:
\* `state` (what get() returned) and the client of the connection store
SearchRequest(call, state, startAt) ==
    [call |-> call, state |-> state, client |-> connection.client,
     jql |-> state.jql, startAt |-> startAt, maxResults |-> state.maxResults]

\* the searches of executeQuery whose date is still to be read
Executing == Len(SelectSeq(pending, LAMBDA request : request.call = "executeQuery"))

\* executeQuery up to its await: without a client or with a blank query it
\* sets the error and returns; otherwise it empties the results and
\* searches from 0
executeQuery ==
    /\ server # NoServer
    /\ IF connection.client = Null
       THEN /\ query' = [query EXCEPT !.error = Str("Not connected to JIRA")]
            /\ UNCHANGED <<pending, server>>
       ELSE IF IsEmpty(Trim(query.jql))
       THEN /\ query' = [query EXCEPT !.error = Str("Please enter a JQL query")]
            /\ UNCHANGED <<pending, server>>
       ELSE /\ Len(pending) < MaxPending
            /\ now + Executing < MaxDates
            /\ query' = [query EXCEPT !.isLoading = TRUE, !.error = Undefined,
                                      !.startAt = 0, !.results = << >>,
                                      !.totalCount = 0]
            /\ pending' = Append(pending, SearchRequest("executeQuery", query, 0))
            /\ server' = [server EXCEPT !.executed = query.jql]
    /\ UNCHANGED <<pipeline, now, connection, searchAll, sessionStorage, localStorage>>

\* executeQuery after its await.  The response becomes the results, the
\* query is added to the history and the history is read back; a failed
\* search empties the results and sets the error.
executeQueryResponds ==
    /\ server # NoServer
    /\ \E k \in 1..Len(pending), fails \in BOOLEAN, quota \in BOOLEAN :
         LET state == pending[k].state
             response == SearchResponse(state.jql, 0, state.maxResults)
             history == IF quota
                        THEN HistoryWith(localStorage.history, state.jql, response.total)
                        ELSE localStorage.history
         IN /\ pending[k].call = "executeQuery"
            /\ pending' = Others(k)
            /\ IF fails
               THEN /\ server.outages > 0
                    /\ server' = [server EXCEPT !.outages = @ - 1]
                    /\ query' = [query EXCEPT !.results = << >>, !.totalCount = 0,
                                              !.isLoading = FALSE,
                                              !.error = Str("Network Error")]
                    /\ UNCHANGED <<localStorage, now>>
               ELSE /\ query' = [query EXCEPT
                                   !.results = response.issues,
                                   !.totalCount = response.total,
                                   !.startAt = response.startAt + Len(response.issues),
                                   !.isLoading = FALSE,
                                   !.error = Undefined,
                                   !.queryHistory = loadQueryHistory(history)]
                    /\ localStorage' = [localStorage EXCEPT !.history = history]
                    /\ now' = now + 1
                    /\ UNCHANGED server
    /\ UNCHANGED <<pipeline, connection, searchAll, sessionStorage>>

\* (mutant) loadMoreResults does not look at isLoading
loadMoreResults_WhileLoading ==
    /\ server # NoServer
    /\ connection.client # Null
    /\ query.startAt < query.totalCount
    /\ Len(pending) < MaxPending
    /\ query' = [query EXCEPT !.isLoading = TRUE]
    /\ pending' = Append(pending, SearchRequest("loadMoreResults", query, query.startAt))
    /\ UNCHANGED <<pipeline, now, connection, searchAll, sessionStorage, localStorage,
                   server>>
\* loadMoreResults up to its await: nothing happens without a client,
\* while a search is loading or when startAt has reached totalCount
loadMoreResults ==
    /\ server # NoServer
    /\ connection.client # Null
    /\ ~query.isLoading
    /\ query.startAt < query.totalCount
    /\ Len(pending) < MaxPending
    /\ query' = [query EXCEPT !.isLoading = TRUE]
    /\ pending' = Append(pending, SearchRequest("loadMoreResults", query, query.startAt))
    /\ UNCHANGED <<pipeline, now, connection, searchAll, sessionStorage, localStorage,
                   server>>

\* loadMoreResults after its await: the page is put behind the results the
\* call read at its start; a failed search sets the error
loadMoreResponds ==
    /\ server # NoServer
    /\ \E k \in 1..Len(pending), fails \in BOOLEAN :
         LET state == pending[k].state
             response == SearchResponse(state.jql, state.startAt, state.maxResults)
         IN /\ pending[k].call = "loadMoreResults"
            /\ pending' = Others(k)
            /\ IF fails
               THEN /\ server.outages > 0
                    /\ server' = [server EXCEPT !.outages = @ - 1]
                    /\ query' = [query EXCEPT !.isLoading = FALSE,
                                              !.error = Str("Network Error")]
               ELSE /\ query' = [query EXCEPT
                                   !.results = state.results \o response.issues,
                                   !.startAt = state.startAt + Len(response.issues),
                                   !.isLoading = FALSE]
                    /\ UNCHANGED server
    /\ UNCHANGED <<pipeline, now, connection, searchAll, sessionStorage, localStorage>>

\* largest number of searches the server fails
MaxOutages == 1

\* a server for the query store
QueryServer(totals, cap, outages) ==
    [authorized |-> JiraServer.authorized, myself |-> JiraServer.myself,
     totals |-> totals, cap |-> cap, outages |-> outages, executed |-> Null]

\* the connection store after a successful connect
Connected ==
    [connectionInitial EXCEPT
       !.serverUrl = Text(<< "https://jira.example.org" >>),
       !.token = Text(<< "pat-1" >>),
       !.isConnected = TRUE,
       !.client = JiraClient(Text(<< "https://jira.example.org" >>),
                             Text(<< "pat-1" >>)),
       !.userInfo = JiraServer.myself]

\* the sizes of the result set of the query: none, one issue, a few, and
\* one more than the page the store asks for
QueryTotals == {0, 1, MaxTotal, maxResults + 1}

\* A query is typed in; the store is connected or not.
InitQuery ==
    \E total \in QueryTotals, cap \in PageCaps, outages \in 0..MaxOutages,
       connected \in BOOLEAN :
      /\ NoExport
      /\ connection = IF connected THEN Connected ELSE connectionInitial
      /\ query = [queryInitial EXCEPT !.jql = TheJql]
      /\ searchAll = NoGenerator
      /\ sessionStorage = EmptySession
      /\ localStorage = EmptyLocal
      /\ pending = << >>
      /\ server = QueryServer([jql \in {TheJql} |-> total], cap, outages)
      /\ now = 0

\* 'Execute Query' is pressed while no search is in flight
executeQueryIdle == pending = << >> /\ executeQuery

NextQuery ==
    \/ executeQueryIdle \/ executeQueryResponds
    \/ loadMoreResults \/ loadMoreResponds

\* One search at a time: 'Load More' is pressed again and again, and every
\* search is answered.
SpecQuery ==
    /\ InitQuery
    /\ [][NextQuery]_vars
    /\ WF_vars(loadMoreResults)
    /\ WF_vars(executeQueryResponds)
    /\ WF_vars(loadMoreResponds)

-----------------------------------------------------------------------------
(* The query store with searches that overlap: the query is changed and    *)
(* executed while earlier searches are in flight, and the responses arrive *)
(* in any order.                                                           *)

OtherJql == Text(<< "project = B" >>)
Jqls == {TheJql, OtherJql}

\* The store is connected; the two queries have result sets of their own.
InitQueryRace ==
    \E total \in {1, 2}, cap \in {1, 1000}, outages \in 0..MaxOutages :
      /\ NoExport
      /\ connection = Connected
      /\ query = [queryInitial EXCEPT !.jql = TheJql]
      /\ searchAll = NoGenerator
      /\ sessionStorage = EmptySession
      /\ localStorage = EmptyLocal
      /\ pending = << >>
      /\ server = QueryServer([jql \in Jqls |->
                                 IF jql = TheJql THEN 2 ELSE total],
                              cap, outages)
      /\ now = 0

NextQueryRace ==
    \/ \E jql \in Jqls : setJql(jql)
    \/ executeQuery \/ executeQueryResponds
    \/ loadMoreResults \/ loadMoreResponds

SpecQueryRace == InitQueryRace /\ [][NextQueryRace]_vars

-----------------------------------------------------------------------------
(* The query history.  The page is loaded with a history that earlier      *)
(* calls of addToQueryHistory wrote; queries are executed, and             *)
(* addToQueryHistory is called.                                            *)

\* the query of the k-th entry of a history written earlier
OldJql(k) == Text(<< "project = P", ToString(k) >>)

\* a history of n entries as earlier calls wrote it: one entry per query,
\* the latest first
StoredHistory(n) ==
    Arr([k \in 1..n |-> [jql |-> OldJql(k), resultCount |-> k,
                         executedAt |-> ToISOString(Date(0 - k))]])

\* the lengths of the history the page is loaded with: none, one entry,
\* one short of the limit, full
HistoryLengths == {0, 1, HistoryLimit - 1, HistoryLimit}

\* the queries that are executed: a new one and the last of a full history
HistoryJqls == {TheJql, OldJql(HistoryLimit)}

InitHistory ==
    \E n \in HistoryLengths, outages \in 0..MaxOutages :
      /\ NoExport
      /\ connection = Connected
      /\ query = [queryInitial EXCEPT !.jql = TheJql]
      /\ searchAll = NoGenerator
      /\ sessionStorage = EmptySession
      /\ localStorage = [EmptyLocal EXCEPT
                           !.history = IF n = 0 THEN Null ELSE StoredHistory(n)]
      /\ pending = << >>
      /\ server = QueryServer([jql \in HistoryJqls |->
                                 IF jql = TheJql THEN MaxTotal ELSE 0],
                              maxResults, outages)
      /\ now = 0

NextHistory ==
    \/ \E jql \in HistoryJqls : setJql(jql)
    \/ executeQueryIdle \/ executeQueryResponds
    \/ \E jql \in HistoryJqls : addToQueryHistory(jql, server.totals[jql])

SpecHistory == InitHistory /\ [][NextHistory]_vars

-----------------------------------------------------------------------------
(* Properties.                                                             *)

Supported == {"xml", "json", "csv"}
Last(seq) == seq[Len(seq)]
Finished == pc = "done"
Resolved == outcome.status = "resolved"
Rejected == outcome.status = "rejected"
StartingInfo ==
    ProgressInfo(0, Total, 0, "processing",
                 "Starting " \o ToUpperCase(config.format) \o " export...")
OfStage(stage) == SelectSeq(events, LAMBDA e : e.stage = stage)

\* C1: an export with a format outside {xml, json, csv} fails with the
\* 'unsupported format' error and onProgress is never invoked during the call.
C1_NoEventOnUnsupportedFormat ==
    config.format \notin Supported =>
        /\ events = << >>
        /\ Finished => /\ Rejected
                       /\ outcome.reason.message
                            = "Unsupported export format: " \o config.format

\* C1 (amended): an export with a format outside {xml, json, csv} fails with
\* the 'unsupported format' error without running an encoder (no issue is
\* projected, nothing is serialized or delivered); a callback that was
\* passed receives exactly two events, the 'processing' event "Starting ..."
\* (current 0, percentage 0) and then one 'error' event with the message.
C1_UnsupportedFormatFails ==
    config.format \notin Supported =>
        /\ processedCount = 0 /\ acc = << >> /\ content = << >>
        /\ saveAsCalls = 0 /\ delivered = << >>
        /\ ~Resolved
        /\ Finished =>
             /\ Rejected
             /\ outcome.reason.isError
             /\ outcome.reason.message = "Unsupported export format: " \o config.format
             /\ events = IF onProgress
                         THEN << StartingInfo,
                                 ProgressInfo(0, Total, 0, "error",
                                              outcome.reason.message) >>
                         ELSE << >>
C1_Witness ==
    Finished /\ config.format \notin Supported /\ onProgress /\ Total > 0

Monotone(evs) ==
    \A i, j \in 1..Len(evs) :
        i < j => /\ evs[i].current <= evs[j].current
                 /\ evs[i].percentage <= evs[j].percentage

\* C2: in every run, successful or failed, the events have non-decreasing
\* current and percentage and the last event is 'complete' at 100 percent.
C2_EveryRunEndsComplete ==
    (Finished /\ events # << >>) =>
        /\ Monotone(events)
        /\ Last(events).stage = "complete"
        /\ Last(events).percentage = 100

\* C2 (amended): in every successful run the events have non-decreasing
\* current and percentage and the last event is 'complete' at 100 percent;
\* in a failed run the events before the 'error' event are non-decreasing
\* and the last event is the 'error' event, with current 0 and percentage 0.
C2_SuccessfulRunEndsComplete ==
    /\ OfStage("error") = << >> => Monotone(events)
    /\ (Resolved /\ onProgress) =>
          /\ OfStage("error") = << >>
          /\ Last(events).stage = "complete"
          /\ Last(events).percentage = 100
    /\ (Rejected /\ onProgress) =>
          /\ Last(events).stage = "error"
          /\ Last(events).current = 0
          /\ Last(events).percentage = 0
          /\ Monotone(SubSeq(events, 1, Len(events) - 1))
C2_Witness ==
    Resolved /\ onProgress /\ Len(OfStage("processing")) >= 3

\* round(current / total * 100); for total = 0, where JavaScript yields NaN,
\* the statement is read in its favour as 0
RoundedRatio(current, total) ==
    IF total = 0 THEN 0 ELSE MathRound(current * 100, total)

\* C3: every event has current <= total and, unless it is the final
\* 'complete' event, percentage = round(current / total * 100), in every
\* stage and for every total, 0 included.
C3_PercentageIsRatioForEveryTotal ==
    \A k \in 1..Len(events) :
        /\ events[k].current <= events[k].total
        /\ events[k].stage # "complete" =>
              events[k].percentage = RoundedRatio(events[k].current, events[k].total)

\* C3 (amended): every event has current <= total; when total > 0 every
\* event, of any stage, has percentage = round(current / total * 100); when
\* total = 0 the 'exporting' and 'complete' events carry a forced 100 and
\* the 'processing' and 'error' events carry 0.
C3_PercentageIsRatioForPositiveTotal ==
    \A k \in 1..Len(events) :
        LET e == events[k]
        IN /\ e.current <= e.total
           /\ e.total > 0 => e.percentage = MathRound(e.current * 100, e.total)
           /\ e.total = 0 =>
                e.percentage = IF e.stage \in {"exporting", "complete"} THEN 100 ELSE 0
C3_Witness ==
    \E k \in 1..Len(events) :
        /\ events[k].stage = "processing"
        /\ 0 < events[k].current /\ events[k].current < events[k].total
        /\ (events[k].current * 100) % events[k].total # 0
        /\ 2 * ((events[k].current * 100) % events[k].total) >= events[k].total

Processing == OfStage("processing")

\* C4: a 'processing' event is emitted exactly once each time the processed
\* count reaches a multiple of 10, and any two consecutive 'processing'
\* events of a run are at least 10 processed issues apart, in all formats.
C4_ProcessingEventsTenApart ==
    onProgress =>
        /\ \A m \in 1..processedCount :
              m % ProgressEvery = 0 =>
                 Len(SelectSeq(Processing, LAMBDA e : e.current = m)) = 1
        /\ \A k \in 1..(Len(Processing) - 1) :
              Processing[k + 1].current - Processing[k].current >= ProgressEvery

\* C4 (amended): a 'processing' event with current = m is emitted exactly
\* once each time the processed count reaches a positive multiple m of 10
\* and at no other count, so two consecutive such events are exactly 10
\* processed issues apart, in all formats; before the first issue the run
\* also emits 'processing' events with current = 0: one (JSON) or two (XML
\* and CSV: "Starting ..." and "Preparing ...").
C4_BatchEventsTenApart ==
    onProgress =>
        LET batches == SelectSeq(Processing, LAMBDA e : e.current > 0)
            announcements == SelectSeq(Processing, LAMBDA e : e.current = 0)
            prepared == /\ config.format \in {"xml", "csv"}
                        /\ pc \notin {"export", "switch", "xml_prepare", "csv_prepare"}
        IN /\ Len(batches) = processedCount \div ProgressEvery
           /\ \A j \in 1..Len(batches) : batches[j].current = j * ProgressEvery
           /\ Processing = announcements \o batches
           /\ Len(announcements) = (IF pc = "export" THEN 0 ELSE 1)
                                   + (IF prepared THEN 1 ELSE 0)
C4_Witness ==
    /\ onProgress /\ config.format = "csv"
    /\ Len(SelectSeq(Processing, LAMBDA e : e.current > 0)) >= 2

Serializing == pc \in {"json_stringify", "csv_unparse", "xml_build"}

\* C5: in every successful run, in each format, the stages of the events are
\* processing* exporting complete: exactly one 'exporting' event, emitted
\* after the last issue was processed and before the serialization step,
\* then exactly one 'complete' event at 100 percent, and no 'processing'
\* event after the 'exporting' one.
C5_StagesOfSuccessfulRun ==
    onProgress =>
        /\ Len(OfStage("exporting")) <= 1
        /\ Len(OfStage("complete")) <= 1
        /\ Serializing =>
              /\ Last(events).stage = "exporting"
              /\ Last(events).current = Total
              /\ processedCount = Total /\ Len(acc) = Total
              /\ content = << >>
        /\ Resolved =>
              LET n == Len(events)
              IN /\ n >= 3
                 /\ events[n].stage = "complete" /\ events[n].percentage = 100
                 /\ events[n - 1].stage = "exporting"
                 /\ \A k \in 1..(n - 2) : events[k].stage = "processing"
C5_Witness ==
    Resolved /\ onProgress /\ config.format = "xml" /\ Total >= ProgressEvery

\* C6: when projection, serialization or delivery throws, exactly one
\* 'error' event is emitted for the run, its message is the message of the
\* thrown error, and the promise rejects with that same error.
C6_OneErrorEventAndRethrow ==
    /\ ~Rejected => OfStage("error") = << >>
    /\ Rejected =>
          /\ outcome.reason = thrown
          /\ thrown.isError
          /\ thrown.message \in {ProjectionError.message, "serialization failed",
                                 "download failed",
                                 "Unsupported export format: " \o config.format}
          /\ onProgress =>
                /\ Len(OfStage("error")) = 1
                /\ Last(events).stage = "error"
                /\ Last(events).message = thrown.message
C6_Witness ==
    /\ Rejected /\ onProgress
    /\ thrown = ProjectionError
    /\ processedCount >= ProgressEvery

\* C7: a run that ends in failure never delivers an artifact: nothing was
\* handed to the download and, for a failure at an issue or in the
\* serialization, saveAs / downloadXml was not invoked at all.
C7_FailedRunDeliversNothing ==
    (Rejected \/ pc = "catch") =>
        /\ delivered = << >>
        /\ thrown.message # "download failed" => saveAsCalls = 0
C7_Witness ==
    Rejected /\ thrown.message = "serialization failed" /\ Total > 0

\* the projection the encoder of a format applies to an issue
ProjectionOf(issue) ==
    CASE config.format = "json" -> processIssueForJson(issue, config)
      [] config.format = "csv" -> processIssueForCsv(issue, config)
      [] config.format = "xml" -> convertIssueToXml(issue, config)

\* the column of a CSV document (a sequence of lines) with a given header,
\* 0 when there is none
ColumnOf(document, header) ==
    IF document # << >> /\ \E c \in 1..Len(document[1]) : document[1][c].value = Str(header)
    THEN CHOOSE c \in 1..Len(document[1]) : document[1][c].value = Str(header)
    ELSE 0

\* C8: in each format the i-th record of the output is the projection of the
\* i-th input issue: the order of the output is the order of the input, no
\* record is dropped, duplicated or reordered, and there are issues.length
\* records (CSV: the cells of row i are the values issue i's projection has
\* for the columns of the document).
C8_OutputOrderIsInputOrder ==
    /\ Len(acc) = processedCount
    /\ \A i \in 1..Len(acc) : acc[i] = ProjectionOf(issues[i])
    /\ Resolved =>
          /\ Len(delivered) = 1
          /\ LET document == delivered[1].content
             IN CASE config.format = "json" ->
                       /\ Length(document.issues) = Total
                       /\ \A i \in 1..Total :
                             /\ document.issues.items[i].id = issues[i].id
                             /\ document.issues.items[i]
                                  = DropUndefined(processIssueForJson(issues[i], config))
                  [] config.format = "xml" ->
                       /\ Len(document.item) = Total
                       /\ \A i \in 1..Total :
                             /\ document.item[i].id = issues[i].id
                             /\ document.item[i].key = issues[i].key
                  [] config.format = "csv" ->
                       /\ Total = 0 => document = << >>
                       /\ Total > 0 =>
                             /\ Len(document) = Total + 1
                             /\ ColumnOf(document, "Issue ID") # 0
                             /\ \A i \in 1..Total :
                                   /\ document[i + 1][ColumnOf(document, "Issue ID")].value
                                        = issues[i].id
                                   /\ \A c \in 1..Len(document[1]) :
                                         LET value == Lookup(processIssueForCsv(issues[i],
                                                                                config),
                                                             document[1][c].value.v)
                                         IN document[i + 1][c].value
                                              = IF Nullish(value) THEN Str("") ELSE value
C8_Witness ==
    /\ Resolved /\ config.format = "csv" /\ Total >= 2
    /\ issues[1].fields.parent # issues[2].fields.parent

\* the keys, elements and columns of the optional sections in the records
JsonKeyOf(section) ==
    CASE section = "comment" -> "comments"
      [] section = "attachment" -> "attachments"
      [] section = "worklog" -> "worklogs"
      [] section = "subtasks" -> "subtasks"
      [] section = "issuelinks" -> "issueLinks"
XmlKeyOf(section) ==
    CASE section = "comment" -> "comments"
      [] section = "attachment" -> "attachments"
      [] section = "worklog" -> "worklogs"
      [] section = "subtasks" -> "subtasks"
      [] section = "issuelinks" -> "issuelinks"
CsvColumnsOf(section) ==
    CASE section = "comment" -> {"Comments Count"}
      [] section = "attachment" -> {"Attachments Count"}
      [] section = "worklog" -> {"Worklog Count", "Total Time Spent (seconds)",
                                 "Total Time Spent (hours)"}
      [] section = "subtasks" -> {"Subtasks Count", "Subtasks"}
      [] section = "issuelinks" -> {}    \* processIssueForCsv has no link column
FlagOf(cfg, section) ==
    CASE section = "comment" -> cfg.includeComments
      [] section = "attachment" -> cfg.includeAttachments
      [] section = "worklog" -> cfg.includeWorklog
      [] section = "subtasks" -> cfg.includeSubtasks
      [] section = "issuelinks" -> cfg.includeLinks
KeySet(row) == { row[k][1] : k \in 1..Len(row) }
JsonCore ==
    {"id", "key", "self", "summary", "description", "issueType", "project", "status",
     "priority", "assignee", "reporter", "created", "updated", "resolutionDate",
     "dueDate", "labels", "components", "fixVersions", "versions"}
XmlCore ==
    {"id", "title", "link", "projectKey", "description", "environment", "key",
     "summary", "type", "priority", "status", "resolution", "assignee", "reporter",
     "created", "updated", "resolved", "version", "fixVersion", "component", "labels",
     "dueDate"}
CsvCore ==
    {"Issue ID", "Issue Key", "Summary", "Description", "Issue Type", "Project Key",
     "Project Name", "Status", "Priority", "Assignee", "Reporter", "Created", "Updated",
     "Resolution Date", "Due Date", "Labels", "Components", "Fix Versions", "Versions"}

\* C9: in each format, when an inclusion flag is false the record of an
\* issue holds no key, element or column of that section, whatever the issue
\* carries and whatever the other flags are; with every flag false and an
\* empty includeFields no optional section but the parent appears.
C9_DisabledSectionsAbsent ==
    pc = "projected" =>
        /\ \A section \in Sections :
              ~FlagOf(config, section) =>
                 /\ JsonKeyOf(section) \notin DOMAIN projected.json
                 /\ XmlKeyOf(section) \notin DOMAIN projected.xml
                 /\ CsvColumnsOf(section) \cap KeySet(projected.csv) = {}
        /\ ((\A section \in Sections : ~FlagOf(config, section))
             /\ config.includeFields = << >>) =>
                 /\ DOMAIN projected.json \subseteq JsonCore \cup {"parent"}
                 /\ DOMAIN projected.xml \subseteq XmlCore \cup {"parent"}
                 /\ KeySet(projected.csv)
                      \subseteq CsvCore \cup {"Parent Key", "Parent Summary"}
C9_Witness ==
    /\ pc = "projected"
    /\ \A section \in Sections : ~FlagOf(config, section)
    /\ config.includeFields = << >>
    /\ issues[1].fields.comment # Undefined /\ issues[1].fields.worklog # Undefined
    /\ issues[1].fields.attachment # Undefined /\ issues[1].fields.subtasks # Undefined
    /\ issues[1].fields.issuelinks # Undefined /\ issues[1].fields.parent # Undefined
    /\ "parent" \in DOMAIN projected.json

\* C10: for every issue that has fields.parent the output of each format
\* holds the parent key and the parent summary of that issue, whatever the
\* flags; in CSV the 'Parent Key' and 'Parent Summary' values of the issue
\* are in the document at whichever position the issue is and whether or
\* not other issues have a parent.
C10_ParentAlwaysExported ==
    Resolved =>
        \A i \in 1..Total :
            issues[i].fields.parent # Undefined =>
                LET parent == issues[i].fields.parent
                    document == delivered[1].content
                IN CASE config.format = "json" ->
                          /\ "parent" \in DOMAIN document.issues.items[i]
                          /\ document.issues.items[i].parent.key = parent.key
                          /\ document.issues.items[i].parent.summary = parent.fields.summary
                     [] config.format = "xml" ->
                          /\ "parent" \in DOMAIN document.item[i]
                          /\ document.item[i].parent.key = parent.key
                          /\ document.item[i].parent.text = parent.fields.summary
                     [] config.format = "csv" ->
                          /\ ColumnOf(document, "Parent Key") # 0
                          /\ ColumnOf(document, "Parent Summary") # 0
                          /\ document[i + 1][ColumnOf(document, "Parent Key")].value
                               = parent.key
                          /\ document[i + 1][ColumnOf(document, "Parent Summary")].value
                               = parent.fields.summary

\* the custom field of the issue is asked for and has a value
CustomIncluded ==
    /\ \E k \in 1..Len(config.includeFields) : config.includeFields[k] = CustomKey
    /\ ~Nullish(Get(issues[1].fields, CustomKey))

\* the custom field key is in the record of a format: as a property of the
\* record or of its custom fields member (JSON, XML), as a column (CSV)
InRecord(record) ==
    \/ CustomKey \in DOMAIN record
    \/ \E member \in {"customfields", "customFields"} \cap DOMAIN record :
          CustomKey \in DOMAIN record[member]
InRow(row) == CustomKey \in KeySet(row)

\* C11: in every format the custom field key is in the record of an issue
\* if and only if the key is in config.includeFields and the issue has a
\* non-null value for it; the three formats project the same custom fields.
C11_CustomFieldsInEveryFormat ==
    pc = "projected" =>
        /\ InRecord(projected.xml) <=> CustomIncluded
        /\ InRecord(projected.json) <=> CustomIncluded
        /\ InRow(projected.csv) <=> CustomIncluded

\* the fallback chain of the normalization: value, else name, else
\* displayName (the first that is present), else the JSON string
FallbackChain(object) ==
    IF Member(object, "value") # Undefined THEN Member(object, "value")
    ELSE IF Member(object, "name") # Undefined THEN Member(object, "name")
    ELSE IF Member(object, "displayName") # Undefined THEN Member(object, "displayName")
    ELSE Str(JSONStringify(object))

\* the chain applied to a standalone object and to each element of an array
ChainNormalized(value) ==
    IF value.t = "array"
    THEN Arr([k \in 1..Length(value) |->
                 IF value.items[k].t = "object" THEN FallbackChain(value.items[k])
                 ELSE value.items[k]])
    ELSE IF value.t = "object" THEN FallbackChain(value)
    ELSE value

\* the custom field of the issue was normalized into the XML record
CustomNormalized ==
    /\ pc = "projected"
    /\ "customfields" \in DOMAIN projected.xml
    /\ CustomKey \in DOMAIN projected.xml.customfields

\* C12: the normalization applies one fallback chain to a standalone
\* object and to each element of an array (value if present, else name,
\* else displayName, else the JSON string); an array of {value: x} objects
\* becomes [x] for every x, falsy x too, and a scalar is left as it is.
C12_OneFallbackChain ==
    CustomNormalized =>
        projected.xml.customfields[CustomKey]
            = ChainNormalized(issues[1].fields[CustomKey])

\* the issue links of the issue, of its JSON record and of its XML record
LinksIn == issues[1].fields.issuelinks
LinksJson == projected.json.issueLinks
LinksXml == projected.xml.issuelinks.issuelink

\* C13: with includeLinks on, for every link in JSON and in XML: when
\* outwardIssue is present the linked issue is the outward issue and the
\* direction is 'outward' (also when inwardIssue is present too); otherwise
\* when inwardIssue is present the linked issue is the inward issue and
\* the direction is 'inward'; with neither the linked issue is null (JSON)
\* or absent (XML).  JSON and XML agree on linked issue and direction.
C13_LinkedIssueAndDirection ==
    (pc = "projected" /\ config.includeLinks) =>
        /\ Length(LinksJson) = Length(LinksIn)
        /\ Length(LinksXml) = Length(LinksIn)
        /\ \A i \in 1..Length(LinksIn) :
              LET link == LinksIn.items[i]
                  json == LinksJson.items[i]
                  xml == LinksXml.items[i]
                  Is(linked, direction) ==
                      /\ json.linkedIssue = [key |-> linked.key,
                                             summary |-> linked.fields.summary]
                      /\ json.direction = Str(direction)
                      /\ xml.issuekey = linked.key
                      /\ xml.summary = linked.fields.summary
                      /\ xml.direction = Str(direction)
              IN /\ CASE link.outwardIssue # Undefined -> Is(link.outwardIssue, "outward")
                      [] link.inwardIssue # Undefined -> Is(link.inwardIssue, "inward")
                      [] OTHER -> /\ json.linkedIssue = Null
                                  /\ xml.issuekey = Undefined
                                  /\ xml.summary = Undefined
                 /\ json.direction = xml.direction
C13_Witness ==
    /\ pc = "projected" /\ config.includeLinks
    /\ LinksIn.items[1].outwardIssue # Undefined
    /\ LinksIn.items[1].inwardIssue # Undefined
    /\ LinksJson.items[1].linkedIssue.key = LinksIn.items[1].outwardIssue.key

\* C14: with includeWorklog on, the CSV row of an issue has 'Worklog Count'
\* equal to the number of worklog entries of the issue, 'Total Time Spent
\* (seconds)' equal to the sum of their timeSpentSeconds and 'Total Time
\* Spent (hours)' equal to that sum divided by 3600 and rounded to two
\* decimals.
C14_WorklogAggregates ==
    (pc = "projected" /\ config.includeWorklog) =>
        LET worklogs == issues[1].fields.worklog.worklogs
            seconds == SumSeconds(worklogs, 1)
        IN /\ Lookup(projected.csv, "Worklog Count") = Num(Length(worklogs))
           /\ Lookup(projected.csv, "Total Time Spent (seconds)") = Num(seconds)
           /\ Lookup(projected.csv, "Total Time Spent (hours)")
                = Hundredths(MathRound(seconds * 100, 3600))

\* the header line of a CSV document, as the set of its column names
HeaderOf(document) == { document[1][c].value.v : c \in 1..Len(document[1]) }

\* C15: an export of any issue list as CSV, the empty list included, that
\* completes produces a document made of the header row with the core
\* columns followed by one row per issue: for issues = [] the header row
\* alone.
C15_HeaderRowAlways ==
    (Resolved /\ config.format = "csv") =>
        LET document == delivered[1].content
        IN /\ Len(document) = Total + 1
           /\ CsvCore \subseteq HeaderOf(document)

\* the optional relations and where each format puts them (CSV has no
\* resolution column, JSON no resolution member)
Relations == {"priority", "assignee", "reporter", "resolution"}
CsvColumnOf(relation) ==
    CASE relation = "priority" -> "Priority"
      [] relation = "assignee" -> "Assignee"
      [] relation = "reporter" -> "Reporter"
      [] relation = "resolution" -> "Resolution"

\* C16: a relation (priority, assignee, reporter, resolution) that is
\* absent on the issue is projected in each format as an absence (null or
\* omitted), never as the empty string.
C16_AbsentRelationNeverEmptyString ==
    pc = "projected" =>
        \A relation \in Relations :
            Nullish(issues[1].fields[relation]) =>
                /\ Nullish(Get(projected.json, relation))
                /\ Nullish(Get(projected.xml, relation))
                /\ Nullish(Lookup(projected.csv, CsvColumnOf(relation)))

\* the calls of export: the running one and the others
Calls == << Frame >> \o frames

\* a is a prefix of b
IsPrefix(a, b) == Len(a) <= Len(b) /\ \A k \in 1..Len(a) : a[k] = b[k]

\* the record a call's encoder makes of one of its issues, the records of
\* all of them and the document they serialize to
RecordOf(call, issue) ==
    CASE call.config.format = "json" -> processIssueForJson(issue, call.config)
      [] call.config.format = "csv" -> processIssueForCsv(issue, call.config)
      [] OTHER -> convertIssueToXml(issue, call.config)
RecordsOf(call) == [i \in 1..Len(call.issues) |-> RecordOf(call, call.issues[i])]
DocumentOf(call) ==
    CASE call.config.format = "json" -> JsonDocument(RecordsOf(call), Len(call.issues))
      [] call.config.format = "csv" -> PapaUnparse(RecordsOf(call))
      [] OTHER -> XmlDocument(RecordsOf(call), Len(call.issues))

\* the events of a successful call that runs on its own: the announcements,
\* one event per ten issues, the 'exporting' and the 'complete' event
AloneEvents(call) ==
    LET total == Len(call.issues)
        format == call.config.format
        upper == ToUpperCase(format)
    IN << ProgressInfo(0, total, 0, "processing", "Starting " \o upper \o " export...") >>
       \o (IF format \in {"xml", "csv"}
           THEN << ProgressInfo(0, total, 0, "processing",
                                "Preparing " \o upper \o " export...") >>
           ELSE << >>)
       \o [k \in 1..(total \div ProgressEvery) |->
              ProcessingInfo(k * ProgressEvery, total)]
       \o << ProgressInfo(total, total, 100, "exporting", "Generating " \o upper \o "..."),
             ProgressInfo(total, total, 100, "complete",
                          IF format = "xml" THEN "Export complete"
                          ELSE upper \o " export complete") >>

\* C17: two calls of export on one ExportService, interleaved in any way at
\* their awaits, each run against their own accumulator: the records and
\* the artifact of each call are those of its own issue list and its
\* events carry its own counts, exactly as when the call runs alone.
C17_CallsAreIndependent ==
    \A c \in 1..Len(Calls) :
        LET call == Calls[c]
        IN /\ Len(call.acc) = call.processedCount
           /\ \A i \in 1..Len(call.acc) : call.acc[i] = RecordOf(call, call.issues[i])
           /\ \A k \in 1..Len(call.events) : call.events[k].total = Len(call.issues)
           /\ IsPrefix(SelectSeq(call.events, LAMBDA e : e.stage # "error"),
                       AloneEvents(call))
           /\ \A k \in 1..Len(call.delivered) :
                 call.delivered[k].content = DocumentOf(call)
           /\ call.outcome.status = "resolved" =>
                 /\ call.events = AloneEvents(call)
                 /\ Len(call.delivered) = 1
C17_Witness ==
    /\ frames # << >>
    /\ pc = "xml_download" /\ frames[1].pc = "xml_download"
    /\ Len(issues) = MaxTwoIssues /\ Len(frames[1].issues) = 1
    /\ issues[1] # frames[1].issues[1]
    /\ Len(events) > 0 /\ Len(frames[1].events) > 0

LastExportedAt == Get(store.state, "lastExportedAt")

\* a step of an exportData call: its beginning, a progress callback of its
\* export, its catch clause
ExportDataBegins == store'.clock # store.clock
ProgressReported == Len(events') > Len(events)
ExportDataFails == pc = "done" /\ pc' = "idle" /\ outcome.status = "rejected"

\* C19: a failed exportData call leaves the state of earlier successful
\* exports untouched: a lastExportedAt set by an earlier successful export
\* keeps its value when a later export begins, reports progress and fails.
C19_FailedExportKeepsLastExportedAt ==
    [][(store # NoStore /\ LastExportedAt # Undefined
          /\ (ExportDataBegins \/ ProgressReported \/ ExportDataFails))
        => LastExportedAt' = LastExportedAt]_vars

NoDataMessage == Str("No data to export. Please execute a query first.")

\* C20: exportData called while the query store has no results sets the
\* error to 'No data to export. Please execute a query first.' with
\* isExporting = false, does not call ExportService.export (no progress
\* event, no artifact) and leaves config and progressInfo as they were.
C20_NoResultsSetsErrorOnly ==
    [][(store # NoStore /\ ExportDataBegins /\ Len(store.results) = 0)
        => /\ store'.state.error = NoDataMessage
           /\ store'.state.isExporting = FALSE
           /\ pc' = "idle"
           /\ events' = events
           /\ saveAsCalls' = saveAsCalls /\ delivered' = delivered
           /\ store'.config = store.config
           /\ store'.progressInfo = store.progressInfo]_vars
C20_Witness ==
    /\ store # NoStore
    /\ pc = "idle"
    /\ Len(store.results) = 0
    /\ Get(store.state, "error") = NoDataMessage
    /\ store.progressInfo # Null
    /\ store.clock = MaxExports

\* the entry of the connection in sessionStorage, and whether it holds a token
StoredConnection == sessionStorage.connection
HoldsToken(entry) == entry # Null /\ ~IsEmpty(Get(entry, "token"))

\* no entry of localStorage has a token
NoTokenInLocalStorage ==
    \A key \in DOMAIN localStorage :
      localStorage[key] = Null \/ "token" \notin DOMAIN localStorage[key]

\* C21: after any sequence of connect / testConnection / disconnect /
\* saveConnection operations the access token is never written to
\* localStorage, it is written to sessionStorage only when
\* rememberCredentials is true (the stored preference for testConnection,
\* the argument for saveConnection), the persisted isConnected flag is
\* always false, and disconnect removes the stored connection entry.
C21_CredentialsInSessionOnly ==
    /\ [](/\ NoTokenInLocalStorage
          /\ StoredConnection # Null => StoredConnection.isConnected = Bool(FALSE))
    /\ [][/\ (/\ \E k \in 1..Len(pending) : testConnectionResponds(k)
              /\ StoredConnection' # StoredConnection
              /\ HoldsToken(StoredConnection'))
             => loadSettings.rememberCredentials
          /\ \A rememberCredentials \in BOOLEAN :
               (saveConnection(rememberCredentials) /\ HoldsToken(StoredConnection'))
                 => rememberCredentials
          /\ disconnect => StoredConnection' = Null]_vars
C21_Witness ==
    /\ connection.isConnected
    /\ HoldsToken(StoredConnection)
    /\ StoredConnection.token = connection.token
    /\ pending = << >>

\* the result set of a query on the server, in its order
ResultSet(jql) == [i \in 1..server.totals[jql] |-> Found(jql, i - 1)]

\* C22: JiraClient.searchAll yields all issues of the JQL result set: for
\* every total and batchSize, and for a server that returns at most its own
\* page-size cap of issues per request (possibly fewer than batchSize), the
\* concatenation of the yielded pages is the result set, every issue index
\* in [0, total) exactly once, with no gap and no duplicate.
C22_SearchAllYieldsEveryIssue ==
    searchAll.pc = "done" => searchAll.yielded = ResultSet(searchAll.jql)

SearchAllOver == searchAll.pc \in {"done", "thrown"}

\* C30: JiraClient.searchAll terminates: for every batchSize >= 0 and
\* every sequence of server responses with a finite total (also one that
\* changes between pages, and total = 0) the generator performs at least
\* one request and finishes after finitely many requests, namely as soon
\* as startAt >= the latest response's total.
C30_SearchAllTerminates ==
    /\ <>SearchAllOver
    /\ [](searchAll.pc = "done" => searchAll.response # Null)
    /\ [][(searchAll.pc = "yielded" /\ searchAll'.pc # "yielded")
            => (searchAll'.pc = "done"
                  <=> searchAll.startAt + searchAll.batchSize
                        >= searchAll.response.total)]_vars

\* the searches of loadMoreResults in flight
LoadingMore == SelectSeq(pending, LAMBDA request : request.call = "loadMoreResults")

Terminal(event) == event.stage \in {"complete", "error"}

\* C24: within one export run the 'complete' and 'error' events are
\* mutually exclusive and terminal: a 'complete' or an 'error' event is the
\* last event of the run (so each occurs at most once, never both, and no
\* event of any stage follows one), and a 'complete' event is emitted only
\* after the artifact was handed to saveAs / downloadXml, in all three formats.
C24_CompleteAndErrorTerminal ==
    /\ \A k \in 1..Len(events) : Terminal(events[k]) => k = Len(events)
    /\ \A k \in 1..Len(events) :
         events[k].stage = "complete" => Len(delivered) = 1

\* an exportData run is in flight: export was called and exportData's
\* continuation has not run yet
InFlight == pc # "idle"

\* exportData's continuation after a successful export
ExportDataSucceeds == pc = "done" /\ pc' = "idle" /\ outcome.status = "resolved"

\* C25: cancelExport is a no-op for the core.  Called while an exportData
\* run is in flight it only resets the store (isExporting false, progress 0,
\* progressInfo null) and leaves the run as it is; every later progress
\* callback of the run sets isExporting true again with the event as
\* progressInfo, a successful run ends with progress 100 and lastExportedAt
\* set, and it has delivered its artifact.
C25_CancelExportDoesNotInterrupt ==
    /\ [][(cancelExport /\ InFlight) =>
            /\ store'.state = [isExporting |-> FALSE, progress |-> Num(0),
                               error |-> Undefined]
            /\ store'.progressInfo = Null
            /\ store'.results = store.results
            /\ store'.config = store.config
            /\ UNCHANGED <<issues, config, onProgress, pc, processedCount, acc,
                           content, events, saveAsCalls, delivered, thrown,
                           outcome>>]_vars
    /\ [][ProgressReported =>
            /\ store'.state.isExporting
            /\ store'.state.progress = Num(Last(events').percentage)
            /\ store'.progressInfo = Last(events')]_vars
    /\ [][ExportDataSucceeds =>
            /\ Len(delivered) = 1
            /\ ~store'.state.isExporting
            /\ store'.state.progress = Num(100)
            /\ LastExportedAt' = Date(store.clock)]_vars
\* a run that was cancelled after its last event has delivered its
\* artifact and resolved; exportData's continuation is still to come
C25_Witness ==
    /\ pc = "done" /\ Resolved
    /\ store.state = [isExporting |-> FALSE, progress |-> Num(0), error |-> Undefined]
    /\ store.progressInfo = Null
    /\ Len(delivered) = 1
    /\ Len(events) > 1

\* disconnect has run and connect was not called since: the store is as
\* disconnect left it and every request in flight is older than the
\* disconnect
Disconnected ==
    /\ ~connection.isConnected
    /\ connection.client = Null
    /\ connection.userInfo = Null
    /\ connection.error = Undefined
    /\ \A k \in 1..Len(pending) : pending[k].orphaned

\* C27: in the connection store isConnected implies that client and
\* userInfo are not null, and disconnect is final until the next connect:
\* when a testConnection request that was started before the disconnect is
\* answered afterwards, the store stays disconnected (isConnected false,
\* client null) and no connection entry is written to sessionStorage.
C27_DisconnectIsFinal ==
    /\ [](connection.isConnected =>
            connection.client # Null /\ connection.userInfo # Null)
    /\ [][\A k \in 1..Len(pending) :
            (Disconnected /\ testConnectionResponds(k)) =>
               /\ ~connection'.isConnected
               /\ connection'.client = Null
               /\ sessionStorage' = sessionStorage]_vars

\* the request a call that has just begun put in flight
NewRequest == pending'[Len(pending')]

\* C28: submitting the connection form with (serverUrl, email, token)
\* makes the store authenticate with the Personal Access Token the user
\* entered: after handleSubmit the token of the connection store and the
\* token the JiraClient sends as its Bearer header are the form's trimmed
\* token field, and no other field of the form.
C28_SubmitAuthenticatesWithToken ==
    [][\A values \in FormValues :
         handleSubmit(values) =>
            /\ connection'.token = Trim(values.token)
            /\ Len(pending') = Len(pending) + 1
            /\ NewRequest.client.token = Trim(values.token)
            /\ NewRequest.client.authorization
                 = Text(<< "Bearer", " " >> \o Trim(values.token).v)]_vars

\* the searches of the query store in flight
Searching == SelectSeq(pending, LAMBDA request :
                         request.call \in {"executeQuery", "loadMoreResults"})

\* C26: in the query store the results always belong to the query that was
\* executed last: for every interleaving of executeQuery and
\* loadMoreResults requests and responses, results holds no issue of an
\* earlier JQL, startAt = results.length, and isLoading is true whenever a
\* search is still in flight.
C26_ResultsOfLastQuery ==
    /\ \A k \in 1..Len(query.results) : query.results[k].jql = server.executed
    /\ query.startAt = Len(query.results)
    /\ Searching # << >> => query.isLoading

\* the stored query history, as loadQueryHistory reads it
QueryHistory == loadQueryHistory(localStorage.history)

\* at most HistoryLimit entries, one per JQL, the most recently executed
\* first
HistoryWellFormed ==
    LET history == QueryHistory
    IN /\ Len(history) <= HistoryLimit
       /\ Cardinality({ history[i].jql : i \in 1..Len(history) }) = Len(history)
       /\ \A i \in 1..Len(history) - 1 :
            history[i].executedAt.v >= history[i + 1].executedAt.v

\* the successful executeQuery whose response is handled in this step put
\* its JQL first, with the total of the response
ExecutedQueryFirst ==
    \E k \in 1..Len(pending) :
       /\ pending' = Others(k)
       /\ QueryHistory'[1].jql = pending[k].jql
       /\ QueryHistory'[1].resultCount = server.totals[pending[k].jql]

ExecuteQuerySucceeds == executeQueryResponds /\ query'.error = Undefined
ExecuteQueryFails == executeQueryResponds /\ query'.error # Undefined

\* the entries of the history but those of jql
Without(history, jql) == SelectSeq(history, LAMBDA item : item.jql # jql)

\* C29 (as stated): after any sequence of addToQueryHistory calls the
\* stored query history holds at most 50 entries, each JQL at most once,
\* the most recently executed first, and its first entry is the JQL of the
\* latest call; every successful executeQuery adds its JQL with the
\* response total, and a failed executeQuery leaves the history unchanged.
C29_LatestCallIsFirst ==
    /\ []HistoryWellFormed
    /\ [][\A jql \in HistoryJqls :
            addToQueryHistory(jql, server.totals[jql]) =>
               /\ QueryHistory' # << >>
               /\ QueryHistory'[1].jql = jql]_vars
    /\ [][ExecuteQuerySucceeds => ExecutedQueryFirst]_vars
    /\ [][ExecuteQueryFails => UNCHANGED localStorage]_vars

\* C29 (amended): the stored query history holds at most 50 entries, each
\* JQL at most once, the most recently executed first.  A call of
\* addToQueryHistory whose write to localStorage succeeds puts its JQL
\* first, with its result count, before the earlier entries of the other
\* queries in their order, cut to 50; a call whose write fails leaves the
\* stored history unchanged.  So does a failed executeQuery, and a
\* successful executeQuery makes that call with the response total.
C29_LatestWrittenCallIsFirst ==
    /\ []HistoryWellFormed
    /\ [][\A jql \in HistoryJqls :
            addToQueryHistory(jql, server.totals[jql]) =>
               \/ UNCHANGED localStorage
               \/ /\ QueryHistory'[1].jql = jql
                  /\ QueryHistory'[1].resultCount = server.totals[jql]
                  /\ Tail(QueryHistory')
                       = Slice(Without(QueryHistory, jql), HistoryLimit - 1)]_vars
    /\ [][ExecuteQuerySucceeds => (UNCHANGED localStorage \/ ExecutedQueryFirst)]_vars
    /\ [][ExecuteQueryFails => UNCHANGED localStorage]_vars
\* a full history after a new query was added: the query is first and the
\* oldest entry is gone
C29_Witness ==
    /\ Len(QueryHistory) = HistoryLimit
    /\ QueryHistory[1].jql = TheJql
    /\ QueryHistory[1].resultCount = MaxTotal
    /\ QueryHistory[HistoryLimit].jql = OldJql(HistoryLimit - 1)

====
